---------------------------- MODULE Spec2Model ----------------------------
(***************************************************************************)
(* Content Extraction & Heuristic Scoring Engine of the YouTube Marketing  *)
(* Expert Agent: the heuristic scorer, the keyword density, the channel    *)
(* analysis and the stored results of main.py, the duration codec, the     *)
(* text cleaning and the number formatting of utils.py, the uploads of     *)
(* youtube_api.py, the count parser, the field extractors and the page     *)
(* analysis of web_scraper.py, the suggestions of ai_analyzer.py.          *)
(*                                                                         *)
(* The functions are pure.  The state is the last call made: which         *)
(* function (pc), its arguments (args) and what it returned (ret).  A text *)
(* is a sequence of one-character strings, so that splitting, searching,   *)
(* formatting and parsing are computed character by character as Python    *)
(* computes them.  A call that raises returns [ok |-> FALSE, err |-> ...]. *)
(* A channel analysis and a call of get_channel_videos run turn by turn:   *)
(* pc is the loop it is in, ret what it has collected so far.  In a        *)
(* session, ret.session_state is what the runs of analyze_url have stored. *)
(***************************************************************************)
EXTENDS Integers, Sequences, FiniteSets, TLC

VARIABLES pc, args, ret

vars == <<pc, args, ret>>

---------------------------------------------------------------------------
(* Bounds of the model *)

\* clock and verbose formatting are applied to 0..MaxSeconds
MaxSeconds == 7325
\* free texts handed to the parsers have at most MaxLen characters
MaxLen == 5
\* the number attached to a unit of a verbose duration is in 0..MaxUnit
MaxUnit == 11
\* the clock texts classified as short or not: hours in 0..MaxClockHours,
\* minutes in 0..MaxClockMinutes, seconds in 0..MaxClockSeconds
MaxClockHours == 1
MaxClockMinutes == 2
MaxClockSeconds == 61

---------------------------------------------------------------------------
(* Python primitives *)

Min(a, b) == IF a <= b THEN a ELSE b
Max(a, b) == IF a >= b THEN a ELSE b

DigitChars == <<"0", "1", "2", "3", "4", "5", "6", "7", "8", "9">>

IsDigit(c) == \E i \in 1..10 : DigitChars[i] = c

DigitVal(c) == (CHOOSE i \in 1..10 : DigitChars[i] = c) - 1

\* str.isspace for the characters of the model's texts
IsSpace(c) == c \in {" ", "\n", "\t"}

\* [A-Z] of the re module
IsUpper(c) ==
    c \in {"A", "B", "C", "D", "E", "F", "G", "H", "I", "J", "K", "L", "M",
           "N", "O", "P", "Q", "R", "S", "T", "U", "V", "W", "X", "Y", "Z"}

\* \w of the re module, for the characters of the model's texts
IsWordChar(c) ==
    \/ IsDigit(c)
    \/ IsUpper(c)
    \/ c = "_"
    \/ c \in {"a", "b", "c", "d", "e", "f", "g", "h", "i", "j", "k", "l", "m",
              "n", "o", "p", "q", "r", "s", "t", "u", "v", "w", "x", "y", "z"}

\* c repeated n times
Rep(c, n) == [i \in 1..n |-> c]

RECURSIVE Sum(_, _)
\* sum(f(x) for x in seq)
Sum(f, n) == IF n = 0 THEN 0 ELSE f[n] + Sum(f, n - 1)

\* s[i..j], empty when j < i
Slice(s, i, j) == IF j < i THEN <<>> ELSE SubSeq(s, i, j)

\* `sub in s` / re.search of a literal: sub occurs in s
Contains(s, sub) ==
    \E i \in 1..(Len(s) - Len(sub) + 1) : Slice(s, i, i + Len(sub) - 1) = sub

RECURSIVE SplitOn(_, _)
\* s.split(sep) for a one-character separator: always at least one part
SplitOn(s, sep) ==
    IF \A i \in 1..Len(s) : s[i] # sep
    THEN <<s>>
    ELSE LET k == CHOOSE i \in 1..Len(s) :
                      s[i] = sep /\ \A j \in 1..(i - 1) : s[j] # sep
         IN  <<Slice(s, 1, k - 1)>> \o SplitOn(Slice(s, k + 1, Len(s)), sep)

\* len(s.split()): the number of maximal runs of non-whitespace characters
WordCount(s) ==
    Cardinality({i \in 1..Len(s) :
                    /\ ~IsSpace(s[i])
                    /\ (i = 1 \/ IsSpace(s[i - 1]))})

---------------------------------------------------------------------------
(* Heuristic scorer: main.py *)

\* tags_analysis['avg_length'], a float in the code, is kept as the exact
\* fraction num/den (den >= 1); a comparison with an integer bound is made on
\* num and bound * den.
AvgLength(total, count) == [num |-> total, den |-> Max(count, 1)]

\* ScoreSum with `score -= 15` typed for the description-length row
ScoreSum_minus(title_analysis, desc_analysis, tags_analysis) ==
    LET avg == tags_analysis.avg_length
    IN  (IF 40 <= title_analysis.length /\ title_analysis.length <= 60
         THEN 15 ELSE 0)
      + (IF title_analysis.has_numbers THEN 5 ELSE 0)
      + (IF title_analysis.has_question \/ title_analysis.has_exclamation
         THEN 10 ELSE 0)
      + (IF 6 <= title_analysis.word_count /\ title_analysis.word_count <= 10
         THEN 10 ELSE 0)
      - (IF desc_analysis.length >= 200 THEN 15 ELSE 0)
      + (IF desc_analysis.has_links THEN 5 ELSE 0)
      + (IF desc_analysis.has_timestamps THEN 5 ELSE 0)
      + (IF desc_analysis.has_hashtags THEN 5 ELSE 0)
      + (IF desc_analysis.line_count >= 3 THEN 5 ELSE 0)
      + (IF tags_analysis.count >= 5 THEN 10 ELSE 0)
      + (IF tags_analysis.count <= 15 THEN 10 ELSE 0)
      + (IF 5 * avg.den <= avg.num /\ avg.num <= 20 * avg.den THEN 5 ELSE 0)

\* ScoreSum with the title-length test written 40 < length < 60
ScoreSum_strict(title_analysis, desc_analysis, tags_analysis) ==
    LET avg == tags_analysis.avg_length
    IN  (IF 40 < title_analysis.length /\ title_analysis.length < 60
         THEN 15 ELSE 0)
      + (IF title_analysis.has_numbers THEN 5 ELSE 0)
      + (IF title_analysis.has_question \/ title_analysis.has_exclamation
         THEN 10 ELSE 0)
      + (IF 6 <= title_analysis.word_count /\ title_analysis.word_count <= 10
         THEN 10 ELSE 0)
      + (IF desc_analysis.length >= 200 THEN 15 ELSE 0)
      + (IF desc_analysis.has_links THEN 5 ELSE 0)
      + (IF desc_analysis.has_timestamps THEN 5 ELSE 0)
      + (IF desc_analysis.has_hashtags THEN 5 ELSE 0)
      + (IF desc_analysis.line_count >= 3 THEN 5 ELSE 0)
      + (IF tags_analysis.count >= 5 THEN 10 ELSE 0)
      + (IF tags_analysis.count <= 15 THEN 10 ELSE 0)
      + (IF 5 * avg.den <= avg.num /\ avg.num <= 20 * avg.den THEN 5 ELSE 0)

\* ScoreSum with the two tag-count rows nested: the <= 15 points are given
\* only to a list of at least 5 tags
ScoreSum_nested(title_analysis, desc_analysis, tags_analysis) ==
    LET avg == tags_analysis.avg_length
    IN  (IF 40 <= title_analysis.length /\ title_analysis.length <= 60
         THEN 15 ELSE 0)
      + (IF title_analysis.has_numbers THEN 5 ELSE 0)
      + (IF title_analysis.has_question \/ title_analysis.has_exclamation
         THEN 10 ELSE 0)
      + (IF 6 <= title_analysis.word_count /\ title_analysis.word_count <= 10
         THEN 10 ELSE 0)
      + (IF desc_analysis.length >= 200 THEN 15 ELSE 0)
      + (IF desc_analysis.has_links THEN 5 ELSE 0)
      + (IF desc_analysis.has_timestamps THEN 5 ELSE 0)
      + (IF desc_analysis.has_hashtags THEN 5 ELSE 0)
      + (IF desc_analysis.line_count >= 3 THEN 5 ELSE 0)
      + (IF tags_analysis.count >= 5
         THEN 10 + (IF tags_analysis.count <= 15 THEN 10 ELSE 0) ELSE 0)
      + (IF 5 * avg.den <= avg.num /\ avg.num <= 20 * avg.den THEN 5 ELSE 0)

\* the additive part of calculate_optimization_score: score starts at 0 and
\* each `if` adds its points
ScoreSum(title_analysis, desc_analysis, tags_analysis) ==
    LET avg == tags_analysis.avg_length
    IN  \* Title scoring (40 points max)
        (IF 40 <= title_analysis.length /\ title_analysis.length <= 60
         THEN 15 ELSE 0)
      + (IF title_analysis.has_numbers THEN 5 ELSE 0)
      + (IF title_analysis.has_question \/ title_analysis.has_exclamation
         THEN 10 ELSE 0)
      + (IF 6 <= title_analysis.word_count /\ title_analysis.word_count <= 10
         THEN 10 ELSE 0)
        \* Description scoring (35 points max)
      + (IF desc_analysis.length >= 200 THEN 15 ELSE 0)
      + (IF desc_analysis.has_links THEN 5 ELSE 0)
      + (IF desc_analysis.has_timestamps THEN 5 ELSE 0)
      + (IF desc_analysis.has_hashtags THEN 5 ELSE 0)
      + (IF desc_analysis.line_count >= 3 THEN 5 ELSE 0)
        \* Tags scoring (25 points max)
      + (IF tags_analysis.count >= 5 THEN 10 ELSE 0)
      + (IF tags_analysis.count <= 15 THEN 10 ELSE 0)
      + (IF 5 * avg.den <= avg.num /\ avg.num <= 20 * avg.den THEN 5 ELSE 0)

calculate_optimization_score(title_analysis, desc_analysis, tags_analysis) ==
    LET max_score == 100
    IN  Min(ScoreSum(title_analysis, desc_analysis, tags_analysis), max_score)

\* the catalog of suggestion strings
SUGGEST_TITLE_LONGER ==
    "Consider making your title longer (40-60 characters) for better SEO"
SUGGEST_TITLE_SHORTER ==
    "Consider shortening your title (40-60 characters) for better visibility"
SUGGEST_TITLE_NUMBERS ==
    "Adding numbers to titles often increases click-through rates"
SUGGEST_TITLE_EMOTION ==
    "Consider adding emotional triggers (? or !) to your title"
SUGGEST_DESC_LONGER ==
    "Write a more detailed description (at least 200 characters) for better SEO"
SUGGEST_DESC_LINKS ==
    "Add relevant links in your description to increase engagement"
SUGGEST_DESC_TIMESTAMPS ==
    "Consider adding timestamps for better user experience"
SUGGEST_DESC_HASHTAGS ==
    "Add relevant hashtags to increase discoverability"
SUGGEST_TAGS_MORE ==
    "Add more tags (5-15 recommended) to improve discoverability"
SUGGEST_TAGS_FEWER ==
    "Reduce the number of tags to focus on most relevant keywords"

\* suggestions.append(s) when cond holds
AppendIf(cond, s) == IF cond THEN <<s>> ELSE <<>>

\* generate_basic_suggestions with the hashtag check placed before the
\* timestamp check
generate_basic_suggestions_swapped(title_analysis, desc_analysis, tags_analysis) ==
       (IF title_analysis.length < 40 THEN <<SUGGEST_TITLE_LONGER>>
        ELSE IF title_analysis.length > 60 THEN <<SUGGEST_TITLE_SHORTER>>
        ELSE <<>>)
    \o AppendIf(~title_analysis.has_numbers, SUGGEST_TITLE_NUMBERS)
    \o AppendIf(~(title_analysis.has_question \/ title_analysis.has_exclamation),
                SUGGEST_TITLE_EMOTION)
    \o AppendIf(desc_analysis.length < 200, SUGGEST_DESC_LONGER)
    \o AppendIf(~desc_analysis.has_links, SUGGEST_DESC_LINKS)
    \o AppendIf(~desc_analysis.has_hashtags, SUGGEST_DESC_HASHTAGS)
    \o AppendIf(~desc_analysis.has_timestamps, SUGGEST_DESC_TIMESTAMPS)
    \o (IF tags_analysis.count < 5 THEN <<SUGGEST_TAGS_MORE>>
        ELSE IF tags_analysis.count > 15 THEN <<SUGGEST_TAGS_FEWER>>
        ELSE <<>>)

\* generate_basic_suggestions with the title test written length <= 40
generate_basic_suggestions_forty(title_analysis, desc_analysis, tags_analysis) ==
       (IF title_analysis.length <= 40 THEN <<SUGGEST_TITLE_LONGER>>
        ELSE IF title_analysis.length > 60 THEN <<SUGGEST_TITLE_SHORTER>>
        ELSE <<>>)
    \o AppendIf(~title_analysis.has_numbers, SUGGEST_TITLE_NUMBERS)
    \o AppendIf(~(title_analysis.has_question \/ title_analysis.has_exclamation),
                SUGGEST_TITLE_EMOTION)
    \o AppendIf(desc_analysis.length < 200, SUGGEST_DESC_LONGER)
    \o AppendIf(~desc_analysis.has_links, SUGGEST_DESC_LINKS)
    \o AppendIf(~desc_analysis.has_timestamps, SUGGEST_DESC_TIMESTAMPS)
    \o AppendIf(~desc_analysis.has_hashtags, SUGGEST_DESC_HASHTAGS)
    \o (IF tags_analysis.count < 5 THEN <<SUGGEST_TAGS_MORE>>
        ELSE IF tags_analysis.count > 15 THEN <<SUGGEST_TAGS_FEWER>>
        ELSE <<>>)

generate_basic_suggestions(title_analysis, desc_analysis, tags_analysis) ==
       \* Title suggestions
       (IF title_analysis.length < 40 THEN <<SUGGEST_TITLE_LONGER>>
        ELSE IF title_analysis.length > 60 THEN <<SUGGEST_TITLE_SHORTER>>
        ELSE <<>>)
    \o AppendIf(~title_analysis.has_numbers, SUGGEST_TITLE_NUMBERS)
    \o AppendIf(~(title_analysis.has_question \/ title_analysis.has_exclamation),
                SUGGEST_TITLE_EMOTION)
       \* Description suggestions
    \o AppendIf(desc_analysis.length < 200, SUGGEST_DESC_LONGER)
    \o AppendIf(~desc_analysis.has_links, SUGGEST_DESC_LINKS)
    \o AppendIf(~desc_analysis.has_timestamps, SUGGEST_DESC_TIMESTAMPS)
    \o AppendIf(~desc_analysis.has_hashtags, SUGGEST_DESC_HASHTAGS)
       \* Tags suggestions
    \o (IF tags_analysis.count < 5 THEN <<SUGGEST_TAGS_MORE>>
        ELSE IF tags_analysis.count > 15 THEN <<SUGGEST_TAGS_FEWER>>
        ELSE <<>>)

\* the title_analysis dictionary of analyze_video_basic (keyword_density apart)
TitleAnalysis(title) ==
    [length          |-> Len(title),
     word_count      |-> WordCount(title),
     has_numbers     |-> \E i \in 1..Len(title) : IsDigit(title[i]),
     has_caps        |-> \E i \in 1..Len(title) : IsUpper(title[i]),
     has_question    |-> \E i \in 1..Len(title) : title[i] = "?",
     has_exclamation |-> \E i \in 1..Len(title) : title[i] = "!"]

\* the desc_analysis dictionary of analyze_video_basic
DescAnalysis(description) ==
    [length         |-> Len(description),
     word_count     |-> WordCount(description),
     \* re.search(r'http[s]?://', description)
     has_links      |-> \/ Contains(description, <<"h", "t", "t", "p", ":", "/", "/">>)
                        \/ Contains(description, <<"h", "t", "t", "p", "s", ":", "/", "/">>),
     \* re.search(r'\d{1,2}:\d{2}', description)
     has_timestamps |-> \E i \in 1..(Len(description) - 3) :
                            /\ IsDigit(description[i])
                            /\ description[i + 1] = ":"
                            /\ IsDigit(description[i + 2])
                            /\ IsDigit(description[i + 3]),
     \* re.search(r'#\w+', description)
     has_hashtags   |-> \E i \in 1..(Len(description) - 1) :
                            /\ description[i] = "#"
                            /\ IsWordChar(description[i + 1]),
     line_count     |-> Len(SplitOn(description, "\n"))]

\* the tags_analysis dictionary of analyze_video_basic (unique_words apart)
TagsAnalysis(tags) ==
    LET total == Sum([i \in 1..Len(tags) |-> Len(tags[i])], Len(tags))
    IN  [count            |-> Len(tags),
         total_characters |-> total,
         avg_length       |-> AvgLength(total, Len(tags))]

\* the scoring tail of analyze_video_basic: the returned dictionary's analysis,
\* optimization_score and basic_suggestions entries
Scored(title_analysis, desc_analysis, tags_analysis) ==
    [title_analysis       |-> title_analysis,
     description_analysis |-> desc_analysis,
     tags_analysis        |-> tags_analysis,
     optimization_score   |->
         calculate_optimization_score(title_analysis, desc_analysis, tags_analysis),
     basic_suggestions    |->
         generate_basic_suggestions(title_analysis, desc_analysis, tags_analysis)]

---------------------------------------------------------------------------
(* Duration codec: utils.py and youtube_api.py *)

\* the value a call returns, and the exception a call raises
Ok(v) == [ok |-> TRUE, val |-> v]
Raise(e) == [ok |-> FALSE, err |-> e]

RECURSIVE Str(_)
\* str(n), f"{n}" for n >= 0
Str(n) ==
    IF n < 10 THEN <<DigitChars[n + 1]>>
    ELSE Str(n \div 10) \o <<DigitChars[(n % 10) + 1]>>

\* f"{n:02d}" for n >= 0
Pad2(n) == IF n < 10 THEN <<"0">> \o Str(n) ELSE Str(n)

RECURSIVE DecVal(_)
\* the number a sequence of digits writes
DecVal(digits) ==
    IF digits = <<>> THEN 0
    ELSE 10 * DecVal(Slice(digits, 1, Len(digits) - 1))
             + (CHOOSE i \in 0..9 : DigitChars[i + 1] = digits[Len(digits)])

\* s.strip()
Strip(s) ==
    IF \A i \in 1..Len(s) : IsSpace(s[i]) THEN <<>>
    ELSE LET first == CHOOSE i \in 1..Len(s) :
                          ~IsSpace(s[i]) /\ \A j \in 1..(i - 1) : IsSpace(s[j])
             last  == CHOOSE i \in 1..Len(s) :
                          ~IsSpace(s[i]) /\ \A j \in (i + 1)..Len(s) : IsSpace(s[j])
         IN  Slice(s, first, last)

\* s without its "_" characters
NoUnderscore(s) == SelectSeq(s, LAMBDA c : c # "_")

\* int(s) of a str: surrounding whitespace is dropped, a sign may lead, the
\* rest is digits, with single underscores allowed between digits; anything
\* else raises ValueError
PyInt(s) ==
    LET u      == Strip(s)
        signed == Len(u) > 0 /\ u[1] \in {"+", "-"}
        body   == IF signed THEN Slice(u, 2, Len(u)) ELSE u
        valid  == /\ Len(body) > 0
                  /\ \A i \in 1..Len(body) :
                        \/ IsDigit(body[i])
                        \/ /\ body[i] = "_"
                           /\ 1 < i /\ i < Len(body)
                           /\ IsDigit(body[i - 1]) /\ IsDigit(body[i + 1])
        value  == DecVal(NoUnderscore(body))
    IN  IF ~valid THEN Raise("ValueError")
        ELSE IF signed /\ u[1] = "-" THEN Ok(0 - value)
        ELSE Ok(value)

\* _format_duration with the minutes taken from the whole duration
\* (seconds // 60) in place of (seconds % 3600) // 60
_format_duration_nomod(seconds) ==
    LET hours   == seconds \div 3600
        minutes == seconds \div 60
        secs    == seconds % 60
    IN  IF hours > 0
        THEN Str(hours) \o <<":">> \o Pad2(minutes) \o <<":">> \o Pad2(secs)
        ELSE Str(minutes) \o <<":">> \o Pad2(secs)

\* YouTubeAPI._format_duration
_format_duration(seconds) ==
    LET hours   == seconds \div 3600
        minutes == (seconds % 3600) \div 60
        secs    == seconds % 60
    IN  IF hours > 0
        THEN Str(hours) \o <<":">> \o Pad2(minutes) \o <<":">> \o Pad2(secs)
        ELSE Str(minutes) \o <<":">> \o Pad2(secs)

\* format_duration with the minutes of the hours branch taken from the whole
\* duration (seconds // 60)
format_duration_nomod(seconds) ==
    IF seconds < 60 THEN Str(seconds) \o <<"s">>
    ELSE IF seconds < 3600
    THEN LET minutes == seconds \div 60
             secs    == seconds % 60
         IN  IF secs > 0
             THEN Str(minutes) \o <<"m", " ">> \o Str(secs) \o <<"s">>
             ELSE Str(minutes) \o <<"m">>
    ELSE LET hours   == seconds \div 3600
             minutes == seconds \div 60
             secs    == seconds % 60
         IN  IF secs > 0
             THEN Str(hours) \o <<"h", " ">> \o Str(minutes) \o <<"m", " ">>
                      \o Str(secs) \o <<"s">>
             ELSE IF minutes > 0
             THEN Str(hours) \o <<"h", " ">> \o Str(minutes) \o <<"m">>
             ELSE Str(hours) \o <<"h">>

\* utils.format_duration
format_duration(seconds) ==
    IF seconds < 60 THEN Str(seconds) \o <<"s">>
    ELSE IF seconds < 3600
    THEN LET minutes == seconds \div 60
             secs    == seconds % 60
         IN  IF secs > 0
             THEN Str(minutes) \o <<"m", " ">> \o Str(secs) \o <<"s">>
             ELSE Str(minutes) \o <<"m">>
    ELSE LET hours   == seconds \div 3600
             minutes == (seconds % 3600) \div 60
             secs    == seconds % 60
         IN  IF secs > 0
             THEN Str(hours) \o <<"h", " ">> \o Str(minutes) \o <<"m", " ">>
                      \o Str(secs) \o <<"s">>
             ELSE IF minutes > 0
             THEN Str(hours) \o <<"h", " ">> \o Str(minutes) \o <<"m">>
             ELSE Str(hours) \o <<"h">>

\* the last position of the run of digits that starts at position p
RunEnd(s, p) ==
    CHOOSE q \in p..Len(s) :
        /\ \A j \in p..q : IsDigit(s[j])
        /\ (q = Len(s) \/ ~IsDigit(s[q + 1]))

\* re.search(r'(\d+)<unit>', s): the positions where a match starts; a run of
\* digits matches when the character after the whole run is the unit
UnitMatches(s, unit) ==
    {p \in 1..Len(s) :
        /\ IsDigit(s[p])
        /\ RunEnd(s, p) < Len(s)
        /\ s[RunEnd(s, p) + 1] = unit}

\* int(match.group(1)) * factor of the leftmost match, 0 when there is none
UnitSeconds(s, unit, factor) ==
    LET matches == UnitMatches(s, unit)
    IN  IF matches = {} THEN 0
        ELSE LET p == CHOOSE p \in matches : \A q \in matches : p <= q
             IN  DecVal(Slice(s, p, RunEnd(s, p))) * factor

\* the branch of parse_duration_to_seconds for "1h 30m 45s"
VerboseSeconds(duration_str) ==
    UnitSeconds(duration_str, "h", 3600)
        + UnitSeconds(duration_str, "m", 60)
        + UnitSeconds(duration_str, "s", 1)

\* int(a) * x + int(b) * y + int(c) * z, raising what the first failing int
\* raises (parts is a sequence of texts, factors of numbers)
RECURSIVE IntSum(_, _)
IntSum(parts, factors) ==
    IF parts = <<>> THEN Ok(0)
    ELSE LET head == PyInt(Head(parts))
             rest == IntSum(Tail(parts), Tail(factors))
         IN  IF ~head.ok THEN head
             ELSE IF ~rest.ok THEN rest
             ELSE Ok(head.val * Head(factors) + rest.val)

\* parse_duration_to_seconds that rejects a colon text of neither 2 nor 3
\* parts
parse_duration_to_seconds_strict(duration_str) ==
    IF duration_str = <<>> THEN Ok(0)
    ELSE IF \E i \in 1..Len(duration_str) : duration_str[i] = ":"
    THEN LET parts == SplitOn(duration_str, ":")
         IN  IF Len(parts) = 2 THEN IntSum(parts, <<60, 1>>)
             ELSE IF Len(parts) = 3 THEN IntSum(parts, <<3600, 60, 1>>)
             ELSE Raise("ValueError")
    ELSE Ok(VerboseSeconds(duration_str))

\* parse_duration_to_seconds that multiplies the minutes by 3600, as the line
\* for the hours does
parse_duration_to_seconds_copied(duration_str) ==
    IF duration_str = <<>> THEN Ok(0)
    ELSE LET parts == SplitOn(duration_str, ":")
             colon == \E i \in 1..Len(duration_str) : duration_str[i] = ":"
         IN  IF colon /\ Len(parts) = 2 THEN IntSum(parts, <<60, 1>>)
             ELSE IF colon /\ Len(parts) = 3 THEN IntSum(parts, <<3600, 60, 1>>)
             ELSE Ok(UnitSeconds(duration_str, "h", 3600)
                         + UnitSeconds(duration_str, "m", 3600)
                         + UnitSeconds(duration_str, "s", 1))

\* utils.parse_duration_to_seconds: a colon text of 2 or 3 parts is read as a
\* clock; every other text, a colon text of 4 parts or more included, falls
\* through to the "1h 30m 45s" branch
parse_duration_to_seconds(duration_str) ==
    IF duration_str = <<>> THEN Ok(0)
    ELSE LET parts == SplitOn(duration_str, ":")
             colon == \E i \in 1..Len(duration_str) : duration_str[i] = ":"
         IN  IF colon /\ Len(parts) = 2 THEN IntSum(parts, <<60, 1>>)
             ELSE IF colon /\ Len(parts) = 3 THEN IntSum(parts, <<3600, 60, 1>>)
             ELSE Ok(VerboseSeconds(duration_str))

\* YouTubeAPI._is_short_video: any exception inside the try is swallowed and
\* the function returns False
_is_short_video(duration) ==
    LET parts == SplitOn(duration, ":")
        ints  == [i \in 1..Len(parts) |-> PyInt(parts[i])]
    IN  IF Len(parts) = 2
        THEN IF ints[1].ok /\ ints[2].ok
             THEN LET minutes == ints[1].val
                      secs    == ints[2].val
                      total_seconds == minutes * 60 + secs
                  IN  total_seconds <= 60
             ELSE FALSE
        ELSE IF Len(parts) = 3
        THEN IF ints[1].ok /\ ints[2].ok /\ ints[3].ok
             THEN LET hours   == ints[1].val
                      minutes == ints[2].val
                      secs    == ints[3].val
                  IN  hours = 0 /\ minutes = 0 /\ secs <= 60
             ELSE FALSE
        ELSE FALSE

---------------------------------------------------------------------------
(* Count parser: web_scraper.py *)

LowerChars == <<"a", "b", "c", "k", "m", "o">>
UpperChars == <<"A", "B", "C", "K", "M", "O">>

\* s.upper(), on the letters of the texts
Upper(s) ==
    [i \in 1..Len(s) |->
        IF \E j \in 1..Len(LowerChars) : LowerChars[j] = s[i]
        THEN UpperChars[CHOOSE j \in 1..Len(LowerChars) : LowerChars[j] = s[i]]
        ELSE s[i]]

\* a float is a binary64: a sign, a significand of Precision bits (first bit
\* 1, written most significant first) and the exponent of its first bit; zero
\* has no bits
Precision == 53

\* the number of binary digits of n (0 <= n < 2^30)
BitLen(n) == CHOOSE k \in 0..30 : n < 2 ^ k /\ (k = 0 \/ n >= 2 ^ (k - 1))

\* n in k binary digits, most significant first
PadBits(n, k) == [i \in 1..k |-> (n \div (2 ^ (k - i))) % 2]

\* the binary digits of n > 0, most significant first; none for 0
BitsOf(n) == PadBits(n, BitLen(n))

RECURSIVE IntOfBits(_)
\* the number a sequence of binary digits writes, eight digits at a time
IntOfBits(bits) ==
    LET n == Len(bits)
    IN  IF n <= 8 THEN Sum([i \in 1..n |-> bits[i] * (2 ^ (n - i))], n)
        ELSE IntOfBits(Slice(bits, 1, n - 8)) * 256
                 + IntOfBits(Slice(bits, n - 7, n))

RECURSIVE PowMod(_, _)
\* 2^e mod q
PowMod(e, q) ==
    IF e <= 13 THEN (2 ^ e) % q
    ELSE (PowMod(e - 13, q) * ((2 ^ 13) % q)) % q

\* the first k binary digits of r / q after the point (0 <= r < q), and the
\* remainder they leave: the i-th digit is that of 2^i * r / q
FracBits(r, q, k) ==
    [bits |-> [i \in 1..k |-> (2 * ((r * PowMod(i - 1, q)) % q)) \div q],
     rem  |-> (r * PowMod(k, q)) % q]

\* the zeros between the point and the first 1 of r / q (0 < r < q)
LeadingZeros(r, q) ==
    CHOOSE z \in 0..30 : r * (2 ^ z) < q /\ r * (2 ^ (z + 1)) >= q

\* bits + 1
Incr(bits) ==
    LET n     == Len(bits)
        zeros == {i \in 1..n : bits[i] = 0}
        last  == CHOOSE i \in zeros : \A j \in zeros : j <= i
    IN  IF zeros = {} THEN <<1>> \o [i \in 1..n |-> 0]
        ELSE [i \in 1..n |->
                 IF i < last THEN bits[i] ELSE IF i = last THEN 1 ELSE 0]

\* the binary64 nearest to the number whose binary digits start with bits
\* (first bit 1, of exponent exp) and go on with zeros only when ~sticky:
\* round to nearest, ties to even
RoundBits(neg, bits, exp, sticky) ==
    LET n      == Len(bits)
        keep   == IF n >= Precision THEN Slice(bits, 1, Precision)
                  ELSE bits \o [i \in 1..(Precision - n) |-> 0]
        guard  == n > Precision /\ bits[Precision + 1] = 1
        rest   == sticky \/ \E i \in (Precision + 2)..n : bits[i] = 1
        up     == guard /\ (rest \/ keep[Precision] = 1)
        more   == IF up THEN Incr(keep) ELSE keep
    IN  IF Len(more) > Precision
        THEN [neg |-> neg, mant |-> Slice(more, 1, Precision), exp |-> exp + 1]
        ELSE [neg |-> neg, mant |-> more, exp |-> exp]

FloatZero(neg) == [neg |-> neg, mant |-> <<>>, exp |-> 0]

\* the binary64 nearest to p / q (p >= 0, q > 0)
FloatOfRatio(neg, p, q) ==
    LET whole == BitsOf(p \div q)
        r     == p % q
    IN  IF p = 0 THEN FloatZero(neg)
        ELSE IF whole # <<>>
        THEN LET frac == FracBits(r, q, Max(Precision + 1 - Len(whole), 0))
             IN  RoundBits(neg, whole \o frac.bits, Len(whole) - 1, frac.rem # 0)
        ELSE LET zeros == LeadingZeros(r, q)
                 frac  == FracBits(r * (2 ^ zeros), q, Precision + 1)
             IN  RoundBits(neg, frac.bits, 0 - (zeros + 1), frac.rem # 0)

RECURSIVE MulBits(_, _, _)
\* the binary digits of bits * m + carry for m <= 1000, by long
\* multiplication from the last digits, 13 digits at a time
MulBits(bits, m, carry) ==
    IF bits = <<>> THEN BitsOf(carry)
    ELSE LET n == Len(bits)
             k == Min(n, 13)
             t == IntOfBits(Slice(bits, n - k + 1, n)) * m + carry
         IN  MulBits(Slice(bits, 1, n - k), m, t \div (2 ^ k))
                 \o PadBits(t % (2 ^ k), k)

RECURSIVE Product(_, _)
\* the binary digits of bits * multiplier for a multiplier 1000^n, a
\* thousand at a time
Product(bits, multiplier) ==
    IF multiplier <= 1000 THEN MulBits(bits, multiplier, 0)
    ELSE Product(MulBits(bits, 1000, 0), multiplier \div 1000)

\* number * multiplier, a float times an int > 0: the exact product, rounded
\* to a binary64
FloatMul(number, multiplier) ==
    IF number.mant = <<>> THEN number
    ELSE LET product == Product(number.mant, multiplier)
         IN  RoundBits(number.neg, product,
                       number.exp - (Precision - 1) + (Len(product) - 1), FALSE)

\* int(x) of a float: the fraction is dropped, towards zero
IntOfFloat(x) ==
    LET whole == IF x.mant = <<>> \/ x.exp < 0 THEN 0
                 ELSE IF x.exp < Precision
                 THEN IntOfBits(Slice(x.mant, 1, x.exp + 1))
                 ELSE IntOfBits(x.mant) * (2 ^ (x.exp - (Precision - 1)))
    IN  IF x.neg THEN 0 - whole ELSE whole

\* float(s) of a str made of digits, ".", a sign and white space:
\* surrounding whitespace is dropped, a sign may lead, the rest is digits with
\* at most one "." and at least one digit; anything else raises ValueError
PyFloat(s) ==
    LET u      == Strip(s)
        signed == Len(u) > 0 /\ u[1] \in {"+", "-"}
        body   == IF signed THEN Slice(u, 2, Len(u)) ELSE u
        points == {i \in 1..Len(body) : body[i] = "."}
        valid  == /\ \E i \in 1..Len(body) : IsDigit(body[i])
                  /\ \A i \in 1..Len(body) : IsDigit(body[i]) \/ body[i] = "."
                  /\ Cardinality(points) <= 1
        places == IF points = {} THEN 0
                  ELSE Len(body) - (CHOOSE i \in points : TRUE)
        digits == SelectSeq(body, IsDigit)
    IN  IF ~valid THEN Raise("ValueError")
        ELSE Ok(FloatOfRatio(signed /\ u[1] = "-", DecVal(digits),
                             10 ^ places))

\* the suffixes of a count and what they multiply by, in the order of the
\* dict
multipliers ==
    <<[suffix |-> "K", multiplier |-> 1000],
      [suffix |-> "M", multiplier |-> 1000000],
      [suffix |-> "B", multiplier |-> 1000000000]>>

\* WebScraper._parse_count(count_str): the float() of a text that ends with a
\* suffix is outside the try
_parse_count(count_str) ==
    LET s       == Strip(Upper(count_str))
        matches == {i \in 1..Len(multipliers) :
                       Len(s) > 0 /\ s[Len(s)] = multipliers[i].suffix}
    IN  IF matches # {}
        THEN LET first  == CHOOSE i \in matches : \A j \in matches : i <= j
                 number == PyFloat(Slice(s, 1, Len(s) - 1))
             IN  IF ~number.ok THEN number
                 ELSE Ok(IntOfFloat(FloatMul(number.val,
                                             multipliers[first].multiplier)))
        ELSE LET number == PyFloat(s)
             IN  IF number.ok THEN Ok(IntOfFloat(number.val)) ELSE Ok(0)

---------------------------------------------------------------------------
(* Field extractor: web_scraper.py *)

\* A soup is what BeautifulSoup parsed: elements says which element each
\* selector finds first in the document (none when it is not in the domain),
\* str is the serialized document. An element has a text and may have a
\* content attribute.
NoElement == [found |-> FALSE]

Element(has_content, content, text) ==
    [found |-> TRUE, has_content |-> has_content, content |-> content,
     text |-> text]

\* soup.select_one(selector), soup.find('meta', {'name': ...}): the first
\* element the selector matches, or None
select_one(soup, selector) ==
    IF selector \in DOMAIN soup.elements THEN soup.elements[selector]
    ELSE NoElement

\* element.get('content', '')
GetContent(element) ==
    IF element.has_content THEN element.content ELSE <<>>

\* element.get_text(strip=True)
get_text(element) == Strip(element.text)

\* a or b, for two str
OrElse(a, b) == IF a # <<>> THEN a ELSE b

UNKNOWN_TITLE ==
    <<"U", "n", "k", "n", "o", "w", "n", " ", "T", "i", "t", "l", "e">>

UNKNOWN_CHANNEL ==
    <<"U", "n", "k", "n", "o", "w", "n", " ", "C", "h", "a", "n", "n", "e", "l">>

YOUTUBE == <<"Y", "o", "u", "T", "u", "b", "e">>

youtube_title_selectors ==
    <<"meta[property=\"og:title\"]", "meta[name=\"title\"]", "title",
      "h1.title", ".watch-main-col h1">>

youtube_description_selectors ==
    <<"meta[property=\"og:description\"]", "meta[name=\"description\"]",
      ".watch-main-col .content", "#watch-description-text">>

channel_name_selectors ==
    <<"meta[property=\"og:title\"]",
      ".channel-header-profile-image-container + .branded-page-header-title-link",
      ".ytd-channel-name a", "title">>

website_title_selectors ==
    <<"meta[property=\"og:title\"]", "meta[name=\"title\"]", "title", "h1">>

website_description_selectors ==
    <<"meta[property=\"og:description\"]", "meta[name=\"description\"]",
      "meta[name=\"Description\"]">>

\* the selectors that match an element of the soup, by their place in the list
Matched(soup, selectors) ==
    {i \in 1..Len(selectors) : select_one(soup, selectors[i]).found}

\* FirstElement with the empty string for every default
FirstElement_empty(soup, selectors, default) ==
    LET matched == Matched(soup, selectors)
        first   == CHOOSE i \in matched : \A j \in matched : i <= j
        element == select_one(soup, selectors[first])
    IN  IF matched = {} THEN <<>>
        ELSE OrElse(GetContent(element), get_text(element))

\* the loop of the title and description extractors: the first selector that
\* matches an element ends the search with the element's content attribute
\* or, when that is empty, its stripped text
FirstElement(soup, selectors, default) ==
    LET matched == Matched(soup, selectors)
        first   == CHOOSE i \in matched : \A j \in matched : i <= j
        element == select_one(soup, selectors[first])
    IN  IF matched = {} THEN default
        ELSE OrElse(GetContent(element), get_text(element))

\* WebScraper._extract_youtube_title(soup)
_extract_youtube_title(soup) ==
    Ok(FirstElement(soup, youtube_title_selectors, UNKNOWN_TITLE))

\* WebScraper._extract_youtube_description(soup)
_extract_youtube_description(soup) ==
    Ok(FirstElement(soup, youtube_description_selectors, <<>>))

\* WebScraper._extract_website_title(soup)
_extract_website_title(soup) ==
    Ok(FirstElement(soup, website_title_selectors, UNKNOWN_TITLE))

\* WebScraper._extract_website_description(soup): the content attribute of
\* the first element matched, whatever it holds
_extract_website_description(soup) ==
    LET matched == Matched(soup, website_description_selectors)
        first   == CHOOSE i \in matched : \A j \in matched : i <= j
    IN  IF matched = {} THEN Ok(<<>>)
        ELSE Ok(GetContent(select_one(soup, website_description_selectors[first])))

\* WebScraper._extract_channel_name(soup): the first selector whose element
\* gives a text that is not empty and does not hold "YouTube"
_extract_channel_name(soup) ==
    LET text(i) == LET element == select_one(soup, channel_name_selectors[i])
                   IN  OrElse(GetContent(element), get_text(element))
        named   == {i \in Matched(soup, channel_name_selectors) :
                       text(i) # <<>> /\ ~Contains(text(i), YOUTUBE)}
    IN  IF named = {} THEN Ok(UNKNOWN_CHANNEL)
        ELSE Ok(text(CHOOSE i \in named : \A j \in named : i <= j))

\* StrippedEntries with each entry kept once
StrippedEntries_unique(content) ==
    LET parts    == SplitOn(content, ",")
        stripped == [i \in 1..Len(parts) |->
                        IF \E j \in 1..(i - 1) : Strip(parts[j]) = Strip(parts[i])
                        THEN <<>> ELSE Strip(parts[i])]
    IN  SelectSeq(stripped, LAMBDA entry : entry # <<>>)

\* the entries of content.split(','), stripped, the empty ones left out
StrippedEntries(content) ==
    LET parts    == SplitOn(content, ",")
        stripped == [i \in 1..Len(parts) |-> Strip(parts[i])]
    IN  SelectSeq(stripped, LAMBDA entry : entry # <<>>)

KEYWORDS == "meta[name=\"keywords\"]"

\* WebScraper._extract_youtube_tags(soup)
_extract_youtube_tags(soup) ==
    LET keywords_meta == select_one(soup, KEYWORDS)
    IN  IF keywords_meta.found
        THEN Ok(StrippedEntries(GetContent(keywords_meta)))
        ELSE Ok(<<>>)

\* WebScraper._extract_website_keywords(soup)
_extract_website_keywords(soup) ==
    LET keywords_meta == select_one(soup, KEYWORDS)
    IN  IF keywords_meta.found
        THEN Ok(StrippedEntries(GetContent(keywords_meta)))
        ELSE Ok(<<>>)

\* The serialized document is a sequence of pieces: a digit, a comma, a
\* space, a line end, a double quote, or one of the words the patterns look
\* for, each word one piece.
VIEW_WORDS == [word |-> "views", key |-> "viewCount", quoted |-> "\"viewCount\":\""]
LIKE_WORDS == [word |-> "likes", key |-> "likeCount", quoted |-> "\"likeCount\":\""]

\* (\d+(?:,\d+)*): digits in groups parted by single commas
IsCountRun(s, i, j) ==
    /\ i <= j /\ IsDigit(s[i]) /\ IsDigit(s[j])
    /\ \A k \in i..j : IsDigit(s[k]) \/ s[k] = ","
    /\ \A k \in i..(j - 1) : ~(s[k] = "," /\ s[k + 1] = ",")

NoMatch == [found |-> FALSE]
Match(group) == [found |-> TRUE, group |-> group]

\* the leftmost of the places where a match may start
Leftmost(starts) == CHOOSE i \in starts : \A k \in starts : i <= k

\* re.search(r'(\d+(?:,\d+)*)\s*views?', content, re.IGNORECASE), the same
\* for likes: a count, white space if any, then a piece that starts with the
\* word ("views", "viewCount")
SearchCountWord(words, content) ==
    LET n          == Len(content)
        wordAt(k)  == k <= n /\ content[k] \in {words.word, words.key}
        ends(i)    == {j \in i..n :
                          /\ IsCountRun(content, i, j)
                          /\ \E k \in (j + 1)..n :
                                /\ wordAt(k)
                                /\ \A m \in (j + 1)..(k - 1) : IsSpace(content[m])}
        group(i)   == Slice(content, i, CHOOSE j \in ends(i) : \A k \in ends(i) : k <= j)
        starts     == {i \in 1..n : ends(i) # {}}
    IN  IF starts = {} THEN NoMatch ELSE Match(group(Leftmost(starts)))

\* re.search(r'viewCount.*?(\d+)', content, re.IGNORECASE), the same for
\* likes: the key, bare or quoted, then the first digits after it on its
\* line
SearchKeyDigits(words, content) ==
    LET n         == Len(content)
        digits(i) == {d \in (i + 1)..n :
                         /\ IsDigit(content[d])
                         /\ \A m \in (i + 1)..(d - 1) :
                               ~IsDigit(content[m]) /\ content[m] # "\n"}
        group(i)  == LET d == CHOOSE d \in digits(i) : TRUE
                     IN  Slice(content, d, RunEnd(content, d))
        starts    == {i \in 1..n : /\ content[i] \in {words.key, words.quoted}
                                    /\ digits(i) # {}}
    IN  IF starts = {} THEN NoMatch ELSE Match(group(Leftmost(starts)))

\* re.search(r'"viewCount":"(\d+)"', content, re.IGNORECASE), the same for
\* likes: the quoted key, digits, the closing quote
SearchQuotedKey(words, content) ==
    LET n        == Len(content)
        group(i) == Slice(content, i + 1, RunEnd(content, i + 1))
        starts   == {i \in 1..(n - 2) :
                        /\ content[i] = words.quoted
                        /\ IsDigit(content[i + 1])
                        /\ RunEnd(content, i + 1) < n
                        /\ content[RunEnd(content, i + 1) + 1] = "\""}
    IN  IF starts = {} THEN NoMatch ELSE Match(group(Leftmost(starts)))

\* the matches of view_patterns on content, in the order of the list
view_patterns(content) ==
    <<SearchCountWord(VIEW_WORDS, content),
      SearchKeyDigits(VIEW_WORDS, content),
      SearchQuotedKey(VIEW_WORDS, content)>>

\* the matches of like_patterns on content, in the order of the list
like_patterns_reversed(content) ==
    <<SearchCountWord(LIKE_WORDS, content),
      SearchKeyDigits(LIKE_WORDS, content),
      SearchQuotedKey(LIKE_WORDS, content)>>

like_patterns(content) ==
    <<SearchQuotedKey(LIKE_WORDS, content),
      SearchKeyDigits(LIKE_WORDS, content),
      SearchCountWord(LIKE_WORDS, content)>>

\* int(match.group(1).replace(',', ''))
GroupInt(match) == PyInt(SelectSeq(match.group, LAMBDA c : c # ","))

\* the loop of the count extractors: the first pattern that matches and
\* whose group int() reads gives the count; a match int() cannot read is
\* passed over (continue); 0 when the list is exhausted
FirstCount(matches) ==
    LET read == {i \in 1..Len(matches) :
                    matches[i].found /\ GroupInt(matches[i]).ok}
    IN  IF read = {} THEN 0
        ELSE GroupInt(matches[CHOOSE i \in read : \A j \in read : i <= j]).val

\* WebScraper._extract_youtube_views(soup)
_extract_youtube_views(soup) == Ok(FirstCount(view_patterns(soup.str)))

\* WebScraper._extract_youtube_likes(soup)
_extract_youtube_likes(soup) == Ok(FirstCount(like_patterns(soup.str)))

---------------------------------------------------------------------------
(* Video records: main.py analyze_video_basic *)

\* the values a video dictionary holds: None, an int, a str, a list of str
None == [type |-> "NoneType"]
IntV(n) == [type |-> "int", val |-> n]
StrV(s) == [type |-> "str", val |-> s]
ListV(l) == [type |-> "list", val |-> l]

\* video.get(key, default)
Get(video, key, default) ==
    IF key \in DOMAIN video THEN video[key] ELSE default

\* bool(v)
Truthy(v) ==
    CASE v.type = "NoneType" -> FALSE
      [] v.type = "int"      -> v.val # 0
      [] v.type = "str"      -> v.val # <<>>
      [] v.type = "list"     -> v.val # <<>>
      [] v.type = "dict"     -> v.val # <<>>

\* a or b
OrValue(a, b) == IF Truthy(a) THEN a ELSE b

\* int(v)
IntOf(v) ==
    CASE v.type = "int" -> Ok(v.val)
      [] v.type = "str" -> PyInt(v.val)
      [] OTHER          -> Raise("TypeError")

\* int(video.get(key, 0) or video.get(altKey, 0))
CountField(video, key, altKey) ==
    IntOf(OrValue(Get(video, key, IntV(0)), Get(video, altKey, IntV(0))))

\* a / b * 100, kept as a fraction
Percentage(a, b) ==
    IF b = 0 THEN Raise("ZeroDivisionError")
    ELSE Ok([num |-> a * 100, den |-> b])

\* (likes + comments) / views * 100
EngagementRate_nomax(likes, comments, views) ==
    Percentage(likes + comments, views)

\* (likes + comments) / max(views, 1) * 100
EngagementRate(likes, comments, views) ==
    Percentage(likes + comments, Max(views, 1))

\* analyze_video_basic(video): the statements run in the source's order, and
\* the first one that raises ends the call
analyze_video_basic(video) ==
    LET title       == Get(video, "title", StrV(<<>>))
        description == Get(video, "description", StrV(<<>>))
        tags        == Get(video, "tags", ListV(<<>>))
        views       == CountField(video, "view_count", "viewCount")
        likes       == CountField(video, "like_count", "likeCount")
        comments    == CountField(video, "comment_count", "commentCount")
        engagement_rate == EngagementRate(likes.val, comments.val, views.val)
    IN  IF ~views.ok THEN views
        ELSE IF ~likes.ok THEN likes
        ELSE IF ~comments.ok THEN comments
        ELSE IF ~engagement_rate.ok THEN engagement_rate
        \* len(title), len(description), len(tags)
        ELSE IF title.type # "str" THEN Raise("TypeError")
        ELSE IF description.type # "str" THEN Raise("TypeError")
        ELSE IF tags.type # "list" THEN Raise("TypeError")
        ELSE Ok([url             |-> Get(video, "webpage_url", StrV(<<>>)),
                 title           |-> title.val,
                 description     |-> description.val,
                 tags            |-> tags.val,
                 views           |-> views.val,
                 likes           |-> likes.val,
                 comments        |-> comments.val,
                 engagement_rate |-> engagement_rate.val]
                @@ Scored(TitleAnalysis(title.val),
                          DescAnalysis(description.val),
                          TagsAnalysis(tags.val)))

\* the dictionary of a video whose title, description and tags are given
VideoOf(video) ==
    [title       |-> StrV(video.title),
     description |-> StrV(video.description),
     tags        |-> ListV(video.tags)]

---------------------------------------------------------------------------
(* Page analysis: web_scraper.py _scrape_youtube_video,
   _analyze_generic_website, and main.py analyze_url *)

\* what get_page_content returns: None when the fetch fails, the empty text
\* of an empty response, or the text of a page, kept with the document that
\* BeautifulSoup(content, 'html.parser') parses from it
EmptyContent == StrV(<<>>)
Page(soup) == [type |-> "str", val |-> <<"<", ">">>, soup |-> soup]

COULD_NOT_FETCH_VIDEO == "Could not fetch video content"
COULD_NOT_FETCH_WEBSITE == "Could not fetch website content"

\* {"error": message}
ErrorResult(message) == [error |-> message]

\* the dictionary _scrape_youtube_video builds from the extractors
ScrapedVideo(url, soup) ==
    [type          |-> StrV(<<"v", "i", "d", "e", "o">>),
     title         |-> StrV(_extract_youtube_title(soup).val),
     description   |-> StrV(_extract_youtube_description(soup).val),
     view_count    |-> IntV(_extract_youtube_views(soup).val),
     like_count    |-> IntV(_extract_youtube_likes(soup).val),
     comment_count |-> IntV(0),
     tags          |-> ListV(_extract_youtube_tags(soup).val),
     webpage_url   |-> url]

\* the dictionary every field of which holds its default: the record of a
\* document in which nothing is found
DefaultVideo(url) ==
    [type          |-> StrV(<<"v", "i", "d", "e", "o">>),
     title         |-> StrV(UNKNOWN_TITLE),
     description   |-> StrV(<<>>),
     view_count    |-> IntV(0),
     like_count    |-> IntV(0),
     comment_count |-> IntV(0),
     tags          |-> ListV(<<>>),
     webpage_url   |-> url]

\* _scrape_youtube_video with the empty-content test left out
_scrape_youtube_video_tolerant(url, content) ==
    IF Truthy(content) THEN ScrapedVideo(url, content.soup)
    ELSE DefaultVideo(url)

\* WebScraper._scrape_youtube_video(url), content being what
\* get_page_content(url, use_selenium=True) returns
_scrape_youtube_video(url, content) ==
    IF ~Truthy(content) THEN ErrorResult(COULD_NOT_FETCH_VIDEO)
    ELSE ScrapedVideo(url, content.soup)

\* the dictionary _analyze_generic_website builds from the extractors of
\* title, description and keywords
AnalyzedWebsite(url, soup) ==
    [type        |-> StrV(<<"w", "e", "b", "s", "i", "t", "e">>),
     title       |-> StrV(_extract_website_title(soup).val),
     description |-> StrV(_extract_website_description(soup).val),
     keywords    |-> ListV(_extract_website_keywords(soup).val),
     webpage_url |-> url]

\* WebScraper._analyze_generic_website(url), content being what
\* get_page_content(url) returns
_analyze_generic_website(url, content) ==
    IF ~Truthy(content) THEN ErrorResult(COULD_NOT_FETCH_WEBSITE)
    ELSE AnalyzedWebsite(url, content.soup)

\* {'title': 'Unknown Title', 'description': '', 'keywords': [], ...}: the
\* website record every field of which holds its default
DefaultWebsite(url) ==
    [type        |-> StrV(<<"w", "e", "b", "s", "i", "t", "e">>),
     title       |-> StrV(UNKNOWN_TITLE),
     description |-> StrV(<<>>),
     keywords    |-> ListV(<<>>),
     webpage_url |-> url]

\* analyze_url of main.py on the scraper's result: an error result is shown
\* by st.error and nothing is analysed; a video is scored by
\* analyze_video_basic (analyze_single_video), a website is kept as it is
\* (analyze_website)
analyze_url(url_data) ==
    IF "error" \in DOMAIN url_data
    THEN [st_error |-> url_data.error, analysis |-> None]
    ELSE IF url_data.type = StrV(<<"v", "i", "d", "e", "o">>)
    THEN [st_error |-> "", analysis |-> analyze_video_basic(url_data)]
    ELSE [st_error |-> "", analysis |-> Ok(url_data)]

---------------------------------------------------------------------------
(* Channel batch: web_scraper.py get_channel_videos_detailed and the scoring
   loop of main.py analyze_youtube_channel *)

\* the dictionary _analyze_youtube_video builds from yt-dlp's info: an entry
\* of info that holds None is passed on as None
InfoVideo(url, title) ==
    [type          |-> StrV(<<"v", "i", "d", "e", "o">>),
     title         |-> title,
     description   |-> StrV(<<>>),
     view_count    |-> IntV(2),
     like_count    |-> IntV(1),
     comment_count |-> IntV(0),
     tags          |-> ListV(<<>>),
     webpage_url   |-> url]

\* the titles yt-dlp's info may hold
InfoTitles == {StrV(<<"H", "i", "!">>), None}

\* a page in which only the view count is found
ViewsPage ==
    Page([elements |-> [s \in {} |-> NoElement], str |-> <<"1", "2", " ", "views">>])

\* WebScraper._analyze_youtube_video(url): what the call may return, by what
\* yt-dlp and the page fetch do: the dictionary of yt-dlp's info or, when
\* yt-dlp raises, what _scrape_youtube_video returns
_analyze_youtube_video(url) ==
    {InfoVideo(url, title) : title \in InfoTitles}
        \cup {_scrape_youtube_video(url, content) : content \in {None, ViewsPage}}

\* the basic info kept when the detailed extraction fails
BasicInfo(video) ==
    [title         |-> Get(video, "title", StrV(<<>>)),
     id            |-> Get(video, "id", StrV(<<>>)),
     webpage_url   |-> Get(video, "url", StrV(<<>>)),
     view_count    |-> IntV(0),
     like_count    |-> IntV(0),
     comment_count |-> IntV(0),
     description   |-> StrV(<<>>),
     tags          |-> ListV(<<>>)]

\* videos[:max_videos], for max_videos >= 0
Take(videos, max_videos) ==
    SubSeq(videos, 1, Min(max_videos, Len(videos)))

\* one turn of the loop of get_channel_videos_detailed: a video without a url
\* is passed over, a detailed info is kept, an error result is replaced by
\* the basic info
Detailed(detailed_videos, video, detailed_info) ==
    IF "url" \notin DOMAIN video THEN detailed_videos
    ELSE IF "error" \notin DOMAIN detailed_info
    THEN Append(detailed_videos, detailed_info)
    ELSE Append(detailed_videos, BasicInfo(video))

\* the state of a channel analysis: the turn of the running loop,
\* detailed_videos, analysis_results['videos'],
\* analysis_results['summary']['total_views'], and the exception that ended it
Batch(i, detailed_videos, videos, total_views, raised) ==
    [i |-> i, detailed_videos |-> detailed_videos, videos |-> videos,
     total_views |-> total_views, raised |-> raised]

---------------------------------------------------------------------------
(* Keyword density: main.py calculate_keyword_density *)

UpperLetters ==
    <<"A", "B", "C", "D", "E", "F", "G", "H", "I", "J", "K", "L", "M",
      "N", "O", "P", "Q", "R", "S", "T", "U", "V", "W", "X", "Y", "Z">>
LowerLetters ==
    <<"a", "b", "c", "d", "e", "f", "g", "h", "i", "j", "k", "l", "m",
      "n", "o", "p", "q", "r", "s", "t", "u", "v", "w", "x", "y", "z">>

\* text.lower()
Lower(text) ==
    [i \in 1..Len(text) |->
        IF IsUpper(text[i])
        THEN LowerLetters[CHOOSE j \in 1..26 : UpperLetters[j] = text[i]]
        ELSE text[i]]

\* re.findall(r'\b\w+\b', text): the maximal runs of word characters, in
\* their order
FindWords(text) ==
    LET starts == {i \in 1..Len(text) :
                      /\ IsWordChar(text[i])
                      /\ (i = 1 \/ ~IsWordChar(text[i - 1]))}
        start(k) == CHOOSE i \in starts :
                        Cardinality({j \in starts : j <= i}) = k
        end(p)   == CHOOSE q \in p..Len(text) :
                        /\ \A j \in p..q : IsWordChar(text[j])
                        /\ (q = Len(text) \/ ~IsWordChar(text[q + 1]))
    IN  [k \in 1..Cardinality(starts) |-> Slice(text, start(k), end(start(k)))]

\* len(word) >= 3
IsKeyword_three(word) == Len(word) >= 3

\* len(word) > 3
IsKeyword(word) == Len(word) > 3

\* (count / total_words) * 100: the binary64 quotient, times 100, rounded
\* again
Density(count, total_words) ==
    FloatMul(FloatOfRatio(FALSE, count, total_words), 100)

\* calculate_keyword_density(text): the dictionary as a function of its keys
calculate_keyword_density(text) ==
    LET words       == FindWords(Lower(text))
        total_words == Len(words)
        word_count  == [word \in {words[i] : i \in {j \in 1..total_words :
                                                      IsKeyword(words[j])}} |->
                           Cardinality({i \in 1..total_words : words[i] = word})]
    IN  IF words = <<>> THEN [word \in {} |-> FloatZero(FALSE)]
        ELSE [word \in DOMAIN word_count |->
                 Density(word_count[word], total_words)]

---------------------------------------------------------------------------
(* AI suggestions: ai_analyzer.py AIAnalyzer.analyze_video *)

\* a dict value, as a function of its keys
DictV(d) == [type |-> "dict", val |-> d]

\* what bedrock_client.invoke_model does on one call: it raises, or it
\* answers a text
Throws == [throws |-> TRUE]
Answers(text) == [throws |-> FALSE, text |-> text]

\* AIAnalyzer._call_claude(prompt): None when the call raises, the stripped
\* text otherwise
_call_claude(outcome) ==
    IF outcome.throws THEN None ELSE StrV(Strip(outcome.text))

\* ", ".join(tags[:10]) raises TypeError unless tags is a list of str
Joins(tags) ==
    /\ tags.type = "list"
    /\ \A i \in 1..Len(tags.val) : tags.val[i].type = "str"

\* _suggest_tags on the response: the stripped parts between commas that are
\* not empty and have at most 30 characters
_suggest_tags(response) ==
    IF ~Truthy(response) THEN None
    ELSE ListV(SelectSeq(StrippedEntries(response.val),
                         LAMBDA tag : Len(tag) <= 30))

\* re.sub(r'^\d+\.?\s*', '', line)
DropNumber(line) ==
    LET digits == CHOOSE n \in 0..Len(line) :
                      /\ \A i \in 1..n : IsDigit(line[i])
                      /\ (n = Len(line) \/ ~IsDigit(line[n + 1]))
        dot    == IF digits > 0 /\ digits < Len(line) /\ line[digits + 1] = "."
                  THEN digits + 1 ELSE digits
        spaces == CHOOSE n \in dot..Len(line) :
                      /\ \A i \in (dot + 1)..n : IsSpace(line[i])
                      /\ (n = Len(line) \/ ~IsSpace(line[n + 1]))
    IN  IF digits = 0 THEN line ELSE Slice(line, spaces + 1, Len(line))

\* re.sub(r'^-\s*', '', idea)
DropDash(idea) ==
    LET spaces == CHOOSE n \in 1..Len(idea) :
                      /\ \A i \in 2..n : IsSpace(idea[i])
                      /\ (n = Len(idea) \/ ~IsSpace(idea[n + 1]))
    IN  IF idea = <<>> \/ idea[1] # "-" THEN idea
        ELSE Slice(idea, spaces + 1, Len(idea))

\* _generate_content_ideas on the response: the lines that start with a digit
\* or a dash, their numbering dropped, the first 5 that are not empty
_generate_content_ideas(response) ==
    IF ~Truthy(response) THEN None
    ELSE LET lines == SplitOn(response.val, "\n")
             ideas == [i \in 1..Len(lines) |->
                          LET line == Strip(lines[i])
                          IN  IF line # <<>> /\ (IsDigit(line[1]) \/ line[1] = "-")
                              THEN DropDash(DropNumber(line)) ELSE <<>>]
             kept  == SelectSeq(ideas, LAMBDA idea : idea # <<>>)
         IN  ListV(Slice(kept, 1, Min(5, Len(kept))))

\* json.loads(response) on the answers of the model: two objects and a
\* number; any other text raises
JsonLoads(text) ==
    CASE text = <<"{", "}">> -> Ok(DictV(<<>>))
      [] text = <<"{", "\"", "a", "\"", ":", "1", "}">> -> Ok(DictV([a |-> 1]))
      [] text = <<"0">> -> Ok(IntV(0))
      [] OTHER -> Raise("JSONDecodeError")

\* the basic analysis _analyze_seo returns when the response is no JSON
BasicSeo == DictV([title_score |-> 7, description_score |-> 6, tags_score |-> 5])

\* _analyze_seo on the response; the basic analysis reads the keywords of the
\* title, which raises AttributeError when the title is None
_analyze_seo(title, response) ==
    IF ~Truthy(response) THEN Ok(None)
    ELSE IF JsonLoads(response.val).ok THEN JsonLoads(response.val)
    ELSE IF title.type # "str" THEN Raise("AttributeError")
    ELSE Ok(BasicSeo)

SuggestionKeys ==
    {"improved_title", "improved_description", "suggested_tags",
     "content_ideas", "seo_analysis"}

\* f"{power_words[0]} {current_title} - {numbers[1]} Tips You Need!", or
\* f"{numbers[2]} {power_words[1]} {current_title[:30]}... Revealed!"
_generate_mock_title(current_title) ==
    IF Len(current_title) < 40
    THEN <<"Ultimate ">> \o current_title \o <<" - 7 Tips You Need!">>
    ELSE <<"10 Secret ">> \o Slice(current_title, 1, 30) \o <<"... Revealed!">>

\* AIAnalyzer._get_mock_suggestions(video): len(title), len(description) and
\* tags[:5] raise TypeError on None; the keywords of the title, whose order
\* follows the hashes of the words, are left out of the values
_get_mock_suggestions(video) ==
    LET title       == Get(video, "title", StrV(<<>>))
        description == Get(video, "description", StrV(<<>>))
        tags        == Get(video, "tags", ListV(<<>>))
    IN  IF title.type # "str" THEN Raise("TypeError")
        ELSE IF description.type # "str" THEN Raise("TypeError")
        ELSE IF tags.type # "list" THEN Raise("TypeError")
        ELSE Ok([improved_title       |-> StrV(_generate_mock_title(title.val)),
                 improved_description |->
                     StrV(IF Len(description.val) > 100
                          THEN <<"hook">> \o Slice(description.val, 1, 200) \o <<"cta">>
                          ELSE <<"hook", "cta">>),
                 suggested_tags       |->
                     ListV(<<StrV(<<"trending">>)>> \o Slice(tags.val, 1, Min(5, Len(tags.val)))),
                 content_ideas        |-> ListV(<<"ideas">>),
                 seo_analysis         |-> BasicSeo])

\* the try block of analyze_video: oracle[key] is what the oracle does on the
\* call made for key
Suggestions(video, oracle) ==
    LET title       == Get(video, "title", StrV(<<>>))
        description == Get(video, "description", StrV(<<>>))
        tags        == Get(video, "tags", ListV(<<>>))
        seo         == _analyze_seo(title, _call_claude(oracle.seo_analysis))
        values      ==
            [improved_title       |-> _call_claude(oracle.improved_title),
             improved_description |-> _call_claude(oracle.improved_description),
             suggested_tags       |-> _suggest_tags(_call_claude(oracle.suggested_tags)),
             content_ideas        |->
                 _generate_content_ideas(_call_claude(oracle.content_ideas)),
             seo_analysis         |-> seo.val]
    IN  \* video.get('description', '')[:1000]
        IF description.type # "str" THEN Raise("TypeError")
        \* ", ".join(video_context['tags'][:10])
        ELSE IF ~Joins(tags) THEN Raise("TypeError")
        ELSE IF ~seo.ok THEN seo
        ELSE Ok([key \in {k \in SuggestionKeys : Truthy(values[k])} |->
                    values[key]])

\* AIAnalyzer.analyze_video(video): the mock set when the client is not
\* configured, and when the try block raises
analyze_video(video, configured, oracle) ==
    IF ~configured THEN _get_mock_suggestions(video)
    ELSE IF Suggestions(video, oracle).ok THEN Suggestions(video, oracle)
    ELSE _get_mock_suggestions(video)

---------------------------------------------------------------------------
(* Text cleaning: utils.py clean_text *)

\* a character of [\x00-\x08\x0b\x0c\x0e-\x1f\x7f-\x9f] that is no white
\* space, written as one element of a text
SOH == "\\x01"

IsControl(c) == c = SOH

\* re.sub(r'\s+', ' ', s): every maximal run of white space becomes one space
CollapseWhitespace(s) ==
    LET marked == [i \in 1..Len(s) |->
                      IF ~IsSpace(s[i]) THEN s[i]
                      ELSE IF i > 1 /\ IsSpace(s[i - 1]) THEN "" ELSE " "]
    IN  SelectSeq(marked, LAMBDA c : c # "")

\* re.sub(r'[\x00-\x08\x0b\x0c\x0e-\x1f\x7f-\x9f]', '', s)
RemoveControl(s) == SelectSeq(s, LAMBDA c : ~IsControl(c))

\* clean_text(text): the control characters are removed after the white space
\* is collapsed
clean_text(text) ==
    IF ~Truthy(text) THEN <<>>
    ELSE RemoveControl(CollapseWhitespace(Strip(text.val)))

---------------------------------------------------------------------------
(* Number formatting: utils.py format_number *)

RECURSIVE GCD(_, _)
\* the greatest common divisor, by Euclid's algorithm
GCD(a, b) == IF b = 0 THEN a ELSE GCD(b, a % b)

\* num / unit, the true division of two ints: the binary64 nearest to the
\* quotient, computed on the fraction in lowest terms
TrueDiv(num, unit) ==
    FloatOfRatio(FALSE, num \div GCD(num, unit), unit \div GCD(num, unit))

\* f"{x:.1f}" of a float x >= 1: the decimal with one place nearest to the
\* exact value of x, ties to even
OneDecimal(x) ==
    LET product == MulBits(x.mant, 10, 0)
        n       == Len(product)
        shift   == (Precision - 1) - x.exp
        whole   == IntOfBits(Slice(product, 1, n - shift))
        half    == product[n - shift + 1] = 1
        rest    == \E i \in (n - shift + 2)..n : product[i] = 1
        tenths  == IF half /\ (rest \/ whole % 2 = 1) THEN whole + 1 ELSE whole
    IN  Str(tenths \div 10) \o <<".">> \o Str(tenths % 10)

\* format_number(num)
format_number(num) ==
    IF num >= 1000000000
    THEN OneDecimal(TrueDiv(num, 1000000000)) \o <<"B">>
    ELSE IF num >= 1000000
    THEN OneDecimal(TrueDiv(num, 1000000)) \o <<"M">>
    ELSE IF num >= 1000
    THEN OneDecimal(TrueDiv(num, 1000)) \o <<"K">>
    ELSE Str(num)

---------------------------------------------------------------------------
(* Stored results: main.py analyze_url, analyze_single_video,
   analyze_youtube_channel, analyze_website, calculate_summary_stats *)

\* an engagement rate is a fraction num/den: their order and their sum
FracLE(a, b) == a.num * b.den <= b.num * a.den
FracAdd(a, b) == [num |-> a.num * b.den + b.num * a.den, den |-> a.den * b.den]

RECURSIVE FracSum(_)
\* sum(rates)
FracSum(rates) ==
    IF rates = <<>> THEN [num |-> 0, den |-> 1]
    ELSE FracAdd(FracSum(Slice(rates, 1, Len(rates) - 1)), rates[Len(rates)])

\* the last of the videos whose engagement rate is the largest
TopVideo_last(videos) ==
    videos[CHOOSE i \in 1..Len(videos) :
               /\ \A j \in 1..Len(videos) :
                     FracLE(videos[j].engagement_rate, videos[i].engagement_rate)
               /\ \A j \in (i + 1)..Len(videos) :
                     ~FracLE(videos[i].engagement_rate, videos[j].engagement_rate)]

\* max(videos, key=lambda x: x['engagement_rate']): the first of the videos
\* whose engagement rate is the largest
TopVideo(videos) ==
    videos[CHOOSE i \in 1..Len(videos) :
               /\ \A j \in 1..Len(videos) :
                     FracLE(videos[j].engagement_rate, videos[i].engagement_rate)
               /\ \A j \in 1..(i - 1) :
                     ~FracLE(videos[i].engagement_rate, videos[j].engagement_rate)]

\* calculate_summary_stats(analysis_results): the dictionary after the call
calculate_summary_stats(analysis_results) ==
    LET videos == analysis_results.videos
        n      == Len(videos)
        total  == FracSum([i \in 1..n |-> videos[i].engagement_rate])
    IN  IF videos = <<>> THEN analysis_results
        ELSE [analysis_results EXCEPT !.summary =
                 [top_performing |-> TopVideo(videos),
                  avg_engagement |-> [num |-> total.num, den |-> total.den * n],
                  optimization_opportunities |->
                      Sum([i \in 1..n |-> Len(videos[i].basic_suggestions)], n)]
                     @@ @]

\* the video as the analyzer reads it: each tag a str
AIVideo(video) ==
    IF "tags" \in DOMAIN video /\ video.tags.type = "list"
    THEN [video EXCEPT !.tags =
             ListV([i \in 1..Len(video.tags.val) |-> StrV(video.tags.val[i])])]
    ELSE video

\* target['ai_suggestions'] = ai_suggestions, ai_suggestions being what
\* analyze_video returned or the exception it raised
WithKey(target, ai_suggestions) ==
    IF ai_suggestions.ok
    THEN Ok([ai_suggestions |-> ai_suggestions.val] @@ target)
    ELSE ai_suggestions

\* WithSuggestions without the test: the analyzer is called on every run
WithSuggestions_always(target, video, ai) ==
    WithKey(target, analyze_video(AIVideo(video), ai.configured, ai.oracle))

\* if detailed_analysis and ai_analyzer.is_configured():
\*     target['ai_suggestions'] = ai_analyzer.analyze_video(video)
\* ai is the analyzer of the run: detailed_analysis, is_configured() and the
\* oracle
WithSuggestions(target, video, ai) ==
    IF ai.detailed_analysis /\ ai.configured
    THEN WithKey(target, analyze_video(AIVideo(video), TRUE, ai.oracle))
    ELSE Ok(target)

\* what a run of analyze_url leaves: st.session_state, whether an analysis
\* ran to completion, and the exception that ended the run if any
Returned_cleared(session_state) ==
    [session_state |-> <<>>, completed |-> FALSE, raised |-> ""]
Returned(session_state) ==
    [session_state |-> session_state, completed |-> FALSE, raised |-> ""]
Raised(session_state, err) ==
    [session_state |-> session_state, completed |-> FALSE, raised |-> err]

\* st.session_state.analysis_results = analysis_results
Stored(session_state, analysis_results) ==
    [session_state |-> [analysis_results |-> analysis_results],
     completed |-> TRUE, raised |-> ""]

\* the analysis of one video: analyze_video_basic(video), then the
\* suggestions; basic is what analyze_video_basic returned
WithBasic(basic, video, ai) ==
    IF basic.ok THEN WithSuggestions(basic.val, video, ai) ELSE basic

\* the scoring loop of analyze_youtube_channel on one video
VideoAnalysis(video, ai) == WithBasic(analyze_video_basic(video), video, ai)

\* the end of analyze_single_video: analysed is the analysis of the video,
\* whose exception ends the run before anything is stored
StoredVideo(session_state, video_data, analysed) ==
    IF ~analysed.ok THEN Raised(session_state, analysed.err)
    ELSE Stored(session_state, calculate_summary_stats(
             [content_type |-> "video",
              video_info   |-> video_data,
              videos       |-> <<analysed.val>>,
              summary      |->
                  [total_videos |-> 1,
                   total_views  |-> Get(video_data, "view_count", IntV(0)),
                   optimization_opportunities |-> 0]]))

\* analyze_single_video(video_data, ai_analyzer, detailed_analysis)
analyze_single_video(session_state, video_data, ai) ==
    StoredVideo(session_state, video_data, VideoAnalysis(video_data, ai))

RECURSIVE DetailedVideos(_, _)
\* WebScraper.get_channel_videos_detailed(videos, max_videos), infos[i]
\* being what _analyze_youtube_video returns on the i-th video
DetailedVideos(videos, infos) ==
    IF videos = <<>> THEN <<>>
    ELSE Detailed(DetailedVideos(Slice(videos, 1, Len(videos) - 1), infos),
                  videos[Len(videos)], infos[Len(videos)])

\* the end of analyze_youtube_channel: analysis[i] is the analysis of the
\* i-th detailed video; the first video whose analysis raises ends the run
StoredChannel(session_state, channel_data, analysis) ==
    LET n      == Len(analysis)
        failed == {i \in 1..n : ~analysis[i].ok}
    IN  IF failed # {}
        THEN Raised(session_state,
                    analysis[CHOOSE i \in failed : \A j \in failed : i <= j].err)
        ELSE Stored(session_state, calculate_summary_stats(
                 [content_type |-> "channel",
                  channel_info |-> channel_data,
                  videos       |-> [i \in 1..n |-> analysis[i].val],
                  summary      |->
                      [total_videos   |-> n,
                       total_views    |-> Sum([i \in 1..n |-> analysis[i].val.views], n),
                       avg_engagement |-> 0,
                       top_performing |-> None,
                       optimization_opportunities |-> 0]]))

\* the scoring loop of analyze_youtube_channel over detailed_videos
ScoredChannel(session_state, channel_data, detailed_videos, ai) ==
    IF detailed_videos = <<>> THEN Returned(session_state)
    ELSE StoredChannel(session_state, channel_data,
             [i \in 1..Len(detailed_videos) |->
                 VideoAnalysis(detailed_videos[i], ai)])

\* analyze_youtube_channel(web_scraper, ai_analyzer, channel_data,
\* max_videos, ...)
analyze_youtube_channel(session_state, channel_data, max_videos, infos, ai) ==
    LET videos == Get(channel_data, "videos", <<>>)
    IN  IF videos = <<>> THEN Returned(session_state)
        ELSE ScoredChannel(session_state, channel_data,
                 DetailedVideos(Take(videos, max_videos), infos), ai)

UNKNOWN_WEBSITE ==
    <<"U", "n", "k", "n", "o", "w", "n", " ", "W", "e", "b", "s", "i", "t", "e">>

\* the end of analyze_website: analysed is analysis_results with the
\* suggestions, or the exception of the analyzer
StoredWebsite(session_state, analysed) ==
    IF ~analysed.ok THEN Raised(session_state, analysed.err)
    ELSE Stored(session_state, analysed.val)

\* analyze_website(website_data, ai_analyzer, detailed_analysis)
analyze_website(session_state, website_data, ai) ==
    LET title        == Get(website_data, "title", StrV(UNKNOWN_WEBSITE))
        description  == Get(website_data, "description", StrV(<<>>))
        pseudo_video == [title       |-> title,
                         description |-> description,
                         tags        |-> Get(website_data, "keywords", ListV(<<>>))]
    IN  \* len(title), len(website_data.get('description', ''))
        IF title.type # "str" THEN Raised(session_state, "TypeError")
        ELSE IF description.type # "str" THEN Raised(session_state, "TypeError")
        ELSE StoredWebsite(session_state,
                 WithSuggestions(
                     [content_type |-> "website",
                      website_info |-> website_data,
                      summary      |-> [title_length       |-> Len(title.val),
                                        description_length |-> Len(description.val)]],
                     pseudo_video, ai))

VIDEO == StrV(<<"v", "i", "d", "e", "o">>)
CHANNEL == StrV(<<"c", "h", "a", "n", "n", "e", "l">>)
WEBSITE == StrV(<<"w", "e", "b", "s", "i", "t", "e">>)

\* analyze_url of main.py with st.session_state: url_data is what
\* web_scraper.analyze_url(url) returned
AnalyzeUrlIn(session_state, url_data, max_videos, infos, ai) ==
    LET content_type == Get(url_data, "type", StrV(<<"unknown">>))
    IN  IF "error" \in DOMAIN url_data THEN Returned(session_state)
        ELSE IF content_type = VIDEO
        THEN analyze_single_video(session_state, url_data, ai)
        ELSE IF content_type = CHANNEL
        THEN analyze_youtube_channel(session_state, url_data, max_videos, infos, ai)
        ELSE IF content_type = WEBSITE
        THEN analyze_website(session_state, url_data, ai)
        ELSE Returned(session_state)

---------------------------------------------------------------------------
(* Channel uploads: youtube_api.py YouTubeAPI.get_channel_videos *)

\* The uploads playlist of a channel is a sequence of items, uploads[i] being
\* the duration in seconds of the i-th video and whether videos().list
\* returns it.  A page token is the number of items before the page, 0 when
\* there is no token.

\* playlistItems().list(maxResults, pageToken).execute(): at most maxResults
\* items after the first pageToken ones, and the token of the next page when
\* items remain
PlaylistItems(uploads, maxResults, pageToken) ==
    LET last == Min(pageToken + maxResults, Len(uploads))
    IN  [items         |-> [i \in 1..(last - pageToken) |-> pageToken + i],
         nextPageToken |-> IF last < Len(uploads) THEN last ELSE 0]

\* _process_video_data(video) of the id-th upload
_process_video_data(uploads, id) ==
    [id               |-> id,
     duration         |-> _format_duration(uploads[id].duration_seconds),
     duration_seconds |-> uploads[id].duration_seconds]

\* the for loop over videos_response['items']: the videos of the page that
\* videos().list returns, in the order of video_ids, the shorts left out when
\* include_shorts is false
PageVideos(uploads, video_ids, include_shorts) ==
    LET returned == SelectSeq(video_ids, LAMBDA id : uploads[id].available)
        videos   == [i \in 1..Len(returned) |->
                        _process_video_data(uploads, returned[i])]
    IN  SelectSeq(videos,
                  LAMBDA video_data :
                      ~(~include_shorts /\ _is_short_video(video_data.duration)))

\* except HttpError: the videos collected so far are returned
OnHttpError_partial(videos) == videos

\* except HttpError: return []
OnHttpError(videos) == <<>>

\* the state of a call: the videos collected, the token of the next page,
\* the requests executed, the pages fetched, the number of videos collected
\* before the last page, what the call returned and whether an HttpError
\* ended it
Call(videos, next_page_token, requests, pages, before, result, failed) ==
    [videos |-> videos, next_page_token |-> next_page_token,
     requests |-> requests, pages |-> pages, before |-> before,
     result |-> result, failed |-> failed]

---------------------------------------------------------------------------
(* Inputs of the scorer *)

\* Analyses on both sides of every threshold of the score table.
TitleAnalyses ==
    [length          : {39, 40, 60, 61},
     word_count      : {5, 6, 10, 11},
     has_numbers     : BOOLEAN,
     has_question    : BOOLEAN,
     has_exclamation : BOOLEAN]

DescAnalyses ==
    [length         : {199, 200},
     has_links      : BOOLEAN,
     has_timestamps : BOOLEAN,
     has_hashtags   : BOOLEAN,
     line_count     : {2, 3}]

\* count tags of total_characters characters in all: the average is just
\* below 5, exactly 5, exactly 20 or just above 20 (0 for no tags)
TagsAnalyses ==
    {[count            |-> c,
      total_characters |-> t,
      avg_length       |-> AvgLength(t, c)] :
         <<c, t>> \in {<<0, 0>>}
             \cup {<<c, t>> \in {4, 5, 15, 16} \X (0..(21 * 16)) :
                      t \in {5 * c - 1, 5 * c, 20 * c, 20 * c + 1}}}

\* a text of n words of w characters each, separated by single spaces
RECURSIVE WordsText(_, _)
WordsText(n, w) ==
    IF n = 0 THEN <<>>
    ELSE IF n = 1 THEN Rep("a", w)
    ELSE WordsText(n - 1, w) \o <<" ">> \o Rep("a", w)

\* 50 characters, 8 words, with "!"
Title50 == WordsText(6, 5) \o <<" ">> \o Rep("b", 6) \o <<" ">> \o Rep("c", 6) \o <<"!">>
\* 45 characters, 8 words, with "?" and a digit
Title45 == WordsText(6, 4) \o <<" ">> \o <<"t", "o", "p", " ">> \o Rep("7", 10) \o <<"?">>

Titles == {<<>>, <<"a", "b", "c">>, <<"A", " ", "1", "?">>, Title45, Title50}

\* 250 characters on 4 lines, with a link
Description250 ==
    <<"h", "t", "t", "p", "s", ":", "/", "/", "x", "\n">>
        \o Rep("a", 100) \o <<"\n">> \o Rep("b", 100) \o <<"\n">> \o Rep("c", 38)

Descriptions ==
    {<<>>,
     <<"a", "\n", "#", "b", " ", "1", ":", "0", "5">>,
     <<"#", " ", "1", ":", "5", " ", "h", "t", "t", "p", ":", "/">>,
     Description250}

\* n tags of w characters each
TagsOf(n, w) == [i \in 1..n |-> Rep("t", w)]

TagLists ==
    {<<>>, TagsOf(8, 10), TagsOf(4, 5) \o TagsOf(1, 4), TagsOf(16, 21),
     TagsOf(5, 4) \o TagsOf(1, 10)}

Videos == [title : Titles, description : Descriptions, tags : TagLists]

---------------------------------------------------------------------------
(* Inputs of the duration codec *)

\* the characters of the free texts: digits, the colon, a unit, white space
\* and a sign
TextAlphabet == {"1", "5", ":", "h", " ", "-"}

FreeTexts == UNION {[1..k -> TextAlphabet] : k \in 0..MaxLen}

Units == {"h", "m", "s"}

\* the units of a verbose duration, in any order, each at most once
UnitOrders ==
    {u \in UNION {[1..k -> Units] : k \in 0..Cardinality(Units)} :
        \A i, j \in 1..Len(u) : i # j => u[i] # u[j]}

RECURSIVE Render(_, _, _)
\* "<N><unit>" for each unit in turn, sep between two of them
Render(units, values, sep) ==
    IF units = <<>> THEN <<>>
    ELSE IF Len(units) = 1 THEN Str(values[1]) \o <<units[1]>>
    ELSE Str(values[1]) \o <<units[1]>> \o sep
             \o Render(Tail(units), Tail(values), sep)

\* clock texts "M:SS" and "H:MM:SS" with the numbers they were written from
ClockInputs ==
    {[duration |-> Str(f[1]) \o <<":">> \o Pad2(f[2]), fields |-> f] :
        f \in (0..MaxClockMinutes) \X (0..MaxClockSeconds)}
    \cup
    {[duration |-> Str(f[1]) \o <<":">> \o Pad2(f[2]) \o <<":">> \o Pad2(f[3]),
      fields   |-> f] :
        f \in (0..MaxClockHours) \X (0..MaxClockMinutes) \X (0..MaxClockSeconds)}

---------------------------------------------------------------------------
(* Inputs of the count parser *)

\* the length of the free count texts
MaxCountLen == 3

\* the characters of the free count texts: digits, the point, two suffixes
\* in either case, white space and a sign
CountAlphabet == {"1", "4", ".", "k", "M", " ", "-"}

\* the counts of the specification, counts whose suffix has no number before
\* it, and counts in billions
CountExamples ==
    {<<"1", ".", "5", "K">>, <<"2", "M">>, <<"4", "2">>, <<"a", "b", "c">>,
     <<"K">>, <<"b", "o", "m", "b">>, <<"4", ".", "1", "M">>,
     <<" ", "1", ".", "5", "k", " ">>, <<"1", ".", "5", "B">>, <<"2", "b">>,
     <<".", "5", "b">>, <<"1", ".", "0", "0", "5", "K">>}

CountTexts ==
    UNION {[1..k -> CountAlphabet] : k \in 0..MaxCountLen} \cup CountExamples

---------------------------------------------------------------------------
(* Inputs of the field extractor *)

\* the length of the content of a keywords element
MaxKeywordsLen == 5

\* the length of a serialized document, in pieces
MaxDocLen == 4

\* the value the element of the i-th selector of a list carries
Value(i) == <<"v", DigitChars[i + 1]>>

\* what a selector may find: nothing, an element with neither content nor
\* text, an empty or blank content attribute, a content attribute with a
\* value, a text with blanks around a value, an empty content attribute
\* before a text, a content attribute that names YouTube
ElementKinds ==
    {"none", "bare", "empty", "blank", "content", "text", "empty_text", "youtube"}

ElementOf(kind, i) ==
    CASE kind = "none"       -> NoElement
      [] kind = "bare"       -> Element(FALSE, <<>>, <<>>)
      [] kind = "empty"      -> Element(TRUE, <<>>, <<>>)
      [] kind = "blank"      -> Element(TRUE, <<" ">>, <<>>)
      [] kind = "content"    -> Element(TRUE, Value(i), <<>>)
      [] kind = "text"       -> Element(FALSE, <<>>, <<" ">> \o Value(i) \o <<" ">>)
      [] kind = "empty_text" -> Element(TRUE, <<>>, Value(i))
      [] kind = "youtube"    -> Element(TRUE, Value(i) \o YOUTUBE, <<>>)

\* the parsed documents that differ in what the selectors of a list find
SoupsOf(selectors) ==
    {[elements |-> [s \in {selectors[i] : i \in 1..Len(selectors)} |->
                       LET i == CHOOSE i \in 1..Len(selectors) : selectors[i] = s
                       IN  ElementOf(kinds[i], i)],
      str      |-> <<>>] :
        kinds \in [1..Len(selectors) -> ElementKinds]}

KeywordsAlphabet == {"a", "b", ",", " "}

\* the parsed documents without a keywords element, with one that has no
\* content attribute, and with one whose content is a short text
KeywordsSoups ==
    {[elements |-> [s \in {} |-> NoElement], str |-> <<>>],
     [elements |-> [s \in {KEYWORDS} |-> Element(FALSE, <<>>, <<>>)], str |-> <<>>]}
    \cup
    {[elements |-> [s \in {KEYWORDS} |-> Element(TRUE, content, <<>>)],
      str      |-> <<>>] :
        content \in UNION {[1..k -> KeywordsAlphabet] : k \in 0..MaxKeywordsLen}}

\* the pieces of a serialized document
DocAlphabet(words) ==
    {"1", "2", ",", " ", "\n", "\"", words.word, words.key, words.quoted}

\* the parsed documents that differ in their serialization
DocSoups(words) ==
    {[elements |-> [s \in {} |-> NoElement], str |-> content] :
        content \in UNION {[1..k -> DocAlphabet(words)] : k \in 0..MaxDocLen}}

---------------------------------------------------------------------------
(* Inputs of analyze_video_basic: video dictionaries *)

\* the largest count a dictionary holds
MaxCount == 2

\* a key the dictionary does not hold
Absent == [type |-> "absent"]

VideoKeys ==
    {"title", "description", "tags", "view_count", "viewCount",
     "like_count", "likeCount", "comment_count", "commentCount"}

\* what each key may hold: nothing, None, or a value of the key's type; the
\* snake_case counts are ints (yt-dlp), the camelCase ones ints or the
\* decimal strings of the Data API
EntryChoices ==
    [title         : {Absent, None, StrV(<<"H", "i", "!">>)},
     description   : {Absent, None, StrV(<<"a", " ", "#", "b">>)},
     tags          : {Absent, None, ListV(<<<<"t">>, <<"u", "v">>>>)},
     view_count    : {Absent, None} \cup {IntV(n) : n \in -1..MaxCount},
     viewCount     : {Absent, None, StrV(<<"1", "2">>)},
     like_count    : {Absent, None} \cup {IntV(n) : n \in 0..MaxCount},
     likeCount     : {Absent, StrV(<<"3">>)},
     comment_count : {Absent, None, IntV(1)},
     commentCount  : {Absent, None}]

\* the dictionary that holds the entries chosen
DictOf(choice) ==
    [key \in {k \in VideoKeys : choice[k].type # "absent"} |-> choice[key]]

VideoDicts == {DictOf(choice) : choice \in EntryChoices}

---------------------------------------------------------------------------
(* Inputs of the page analysis *)

\* the URL of the k-th video or page
UrlOf(k) == StrV(<<"u", DigitChars[k + 1]>>)

\* the selectors the pages of the model answer: the first title selector, the
\* first description selector and the keywords element
PageSelectors ==
    <<youtube_title_selectors[1], youtube_description_selectors[1], KEYWORDS>>

\* the serializations of the pages: no count, a view count, a like count
PageDocs ==
    {<<>>, <<"1", "2", " ", "views">>, <<"likeCount", "3">>}

\* the parsed pages: each selector finds nothing, an empty content attribute
\* or a content attribute with a value
PageSoups ==
    {[elements |-> [s \in {PageSelectors[i] : i \in 1..Len(PageSelectors)} |->
                       LET i == CHOOSE i \in 1..Len(PageSelectors) :
                                    PageSelectors[i] = s
                       IN  ElementOf(kinds[i], i)],
      str      |-> doc] :
        kinds \in [1..Len(PageSelectors) -> {"none", "empty", "content"}],
        doc \in PageDocs}

\* what get_page_content may return
Contents == {None, EmptyContent} \cup {Page(soup) : soup \in PageSoups}

---------------------------------------------------------------------------
(* Inputs of the channel batch *)

\* the longest list of channel videos, and the largest max_videos
MaxVideos == 3

\* the k-th video of a channel, with or without its url
ChannelVideo(k, has_url) ==
    IF has_url
    THEN [title |-> StrV(<<"T", DigitChars[k + 1]>>), id |-> StrV(<<"i", DigitChars[k + 1]>>),
          url |-> UrlOf(k)]
    ELSE [title |-> StrV(<<"T", DigitChars[k + 1]>>), id |-> StrV(<<"i", DigitChars[k + 1]>>)]

ChannelVideos ==
    UNION {{[k \in 1..n |-> ChannelVideo(k, has_url[k])] :
               has_url \in [1..n -> BOOLEAN]} : n \in 0..MaxVideos}

---------------------------------------------------------------------------
(* Inputs of calculate_keyword_density *)

\* a text has at most MaxWords tokens
MaxWords == 4

\* the tokens of the texts: a capitalised word, the same word in lower case,
\* another word, and a word of 3 characters
Tokens ==
    {<<"A", "a", "a", "a">>, <<"a", "a", "a", "a">>, <<"b", "b", "_", "1">>,
     <<"a", "b", "c">>}

RECURSIVE Joined(_)
\* " ".join(tokens)
Joined(tokens) ==
    IF Len(tokens) = 0 THEN <<>>
    ELSE IF Len(tokens) = 1 THEN tokens[1]
    ELSE tokens[1] \o <<" ">> \o Joined(Tail(tokens))

\* n times one keyword, the first time capitalised, then m times another
TwoKeywords(n, m) ==
    Joined([i \in 1..(n + m) |->
               IF i = 1 THEN <<"A", "a", "a", "a">>
               ELSE IF i <= n THEN <<"a", "a", "a", "a">>
               ELSE <<"b", "b", "_", "1">>])

\* texts without a word, with dashes between the words, and longer texts
DensityExamples ==
    {<<"-">>, <<" ", "-", " ">>,
     <<"a", "b", "-", "c", "d", "e", "f", "!", "a", "-", "C", "D", "E", "F">>,
     TwoKeywords(5, 1), TwoKeywords(2, 9), TwoKeywords(3, 4)}

DensityTexts ==
    {Joined(tokens) : tokens \in UNION {[1..n -> Tokens] : n \in 0..MaxWords}}
        \cup DensityExamples

---------------------------------------------------------------------------
(* Inputs of AIAnalyzer.analyze_video *)

\* the videos handed to the analyzer: each of title, description and tags is
\* absent, None or a value; one list of tags holds an item that is no str
AIVideoChoices ==
    [title       : {Absent, None, StrV(<<"H", "i">>)},
     description : {Absent, None, StrV(<<"a", "b">>)},
     tags        : {Absent, None, ListV(<<StrV(<<"t">>)>>), ListV(<<None>>)}]

AIVideos ==
    {[key \in {k \in {"title", "description", "tags"} :
                 choice[k].type # "absent"} |-> choice[key]] :
        choice \in AIVideoChoices}

\* what the oracle does on each of the five calls: it raises, it answers
\* blank text, or it answers a text
Oracles ==
    [improved_title       : {Throws, Answers(<<" ">>), Answers(<<"N", "e", "w">>)},
     improved_description : {Throws, Answers(<<"D", "\n">>)},
     suggested_tags       :
         {Throws, Answers(<<"a", ",", " ", ",", "b">>), Answers(<<",">>),
          Answers(Rep("x", 31))},
     content_ideas        :
         {Throws,
          Answers(<<"1", ".", " ", "a", "\n", "-", " ", "b", "\n", "c">>),
          Answers(<<"n", "o">>)},
     seo_analysis         :
         {Throws, Answers(<<"{", "}">>),
          Answers(<<"{", "\"", "a", "\"", ":", "1", "}">>), Answers(<<"0">>),
          Answers(<<"n", "o">>)}]

---------------------------------------------------------------------------
(* Inputs of clean_text *)

\* the length of the texts cleaned
MaxCleanLen == 4

CleanAlphabet == {"a", "b", " ", "\n", SOH}

\* "  Hello   World  \n\n  " of test_setup.py, a word being one element
HelloWorld ==
    <<" ", " ", "Hello", " ", " ", " ", "World", " ", " ", "\n", "\n", " ", " ">>

CleanTexts ==
    {None, StrV(HelloWorld)}
        \cup {StrV(s) : s \in UNION {[1..n -> CleanAlphabet] : n \in 0..MaxCleanLen}}

---------------------------------------------------------------------------
(* Inputs of format_number *)

\* every number up to MaxNumber is formatted
MaxNumber == 2100

\* numbers on both sides of every threshold, and the largest ones below a
\* threshold; those above 1,000,000 are multiples of 1,000 and those above
\* 1,000,000,000 multiples of 1,000,000, so that the fraction in lowest terms
\* has a denominator of at most 1000
LargeNumbers ==
    {999900, 999949, 999950, 999999, 1000000, 1049000, 1050000, 1500000,
     999949000, 999950000, 999999000, 1000000000, 1500000000, 2147000000}

Numbers == 0..MaxNumber \cup LargeNumbers

---------------------------------------------------------------------------
(* Inputs of the stored results *)

\* the longest list of videos of a channel whose summary is calculated
MaxListed == 2

\* an oracle that raises on every call, and one that answers every call
SilentOracle == [key \in SuggestionKeys |-> Throws]
AnsweringOracle ==
    [improved_title       |-> Answers(<<"N", "e", "w">>),
     improved_description |-> Answers(<<"D", "\n">>),
     suggested_tags       |-> Answers(<<"a", ",", " ", ",", "b">>),
     content_ideas        |-> Answers(<<"1", ".", " ", "a", "\n", "-", " ", "b">>),
     seo_analysis         |-> Answers(<<"n", "o">>)]

\* the analyzers of a run; the oracle is called only by a detailed analysis
\* with a configured analyzer
Analyzers ==
    {ai \in [detailed_analysis : BOOLEAN, configured : BOOLEAN,
             oracle : {SilentOracle, AnsweringOracle}] :
        (ai.detailed_analysis /\ ai.configured) \/ ai.oracle = SilentOracle}

\* yt-dlp's info with the counts given
CountedVideo(url, likes, views) ==
    [InfoVideo(url, StrV(<<"H", "i", "!">>)) EXCEPT
        !.like_count = IntV(likes), !.view_count = IntV(views)]

\* what _analyze_youtube_video may return on the videos of a channel:
\* engagement rates of 50 (twice), 200/3, 100 and 0, a null title, an error
\* result
DetailedInfos(url) ==
    <<InfoVideo(url, StrV(<<"H", "i", "!">>)), InfoVideo(url, None),
      _scrape_youtube_video(url, None),
      CountedVideo(url, 2, 4), CountedVideo(url, 2, 3), CountedVideo(url, 1, 0)>>

\* {'type': 'channel', 'channel_name': ..., 'videos': videos, ...}
ChannelData(videos) ==
    [type         |-> CHANNEL,
     channel_name |-> StrV(UNKNOWN_CHANNEL),
     videos       |-> videos,
     webpage_url  |-> UrlOf(0)]

\* the channels whose summary is calculated
ListedChannels ==
    UNION {{ChannelData([k \in 1..n |-> ChannelVideo(k, has_url[k])]) :
               has_url \in [1..n -> BOOLEAN]} : n \in 0..MaxListed}

\* the runs of a session: an error result, a result without a type, a video,
\* a video with a null title, a channel without videos, a channel whose
\* video has no url, a website, a website with a null title, and a channel
\* of two videos
Run(url_data, max_videos, infos) ==
    [url_data |-> url_data, max_videos |-> max_videos, infos |-> infos]

TwoVideos == ChannelData(<<ChannelVideo(1, TRUE), ChannelVideo(2, TRUE)>>)

Runs ==
    {Run(url_data, 1, <<>>) :
        url_data \in {ErrorResult(COULD_NOT_FETCH_VIDEO),
                      [webpage_url |-> UrlOf(1)],
                      InfoVideo(UrlOf(1), StrV(<<"H", "i", "!">>)),
                      InfoVideo(UrlOf(2), None),
                      ChannelData(<<>>),
                      DefaultWebsite(UrlOf(1)),
                      [DefaultWebsite(UrlOf(2)) EXCEPT !.title = None]}}
        \cup {Run(ChannelData(<<ChannelVideo(1, FALSE)>>), 1,
                  <<ErrorResult(COULD_NOT_FETCH_VIDEO)>>)}
        \cup {Run(TwoVideos, max_videos, infos) :
                 max_videos \in 1..2,
                 infos \in {<<InfoVideo(UrlOf(1), StrV(<<"H", "i", "!">>)),
                              ErrorResult(COULD_NOT_FETCH_VIDEO)>>,
                            <<ErrorResult(COULD_NOT_FETCH_VIDEO),
                              CountedVideo(UrlOf(2), 2, 3)>>,
                            <<CountedVideo(UrlOf(1), 2, 4),
                              InfoVideo(UrlOf(2), None)>>}}

---------------------------------------------------------------------------
(* Inputs of get_channel_videos *)

\* the longest uploads playlist, and the largest max_results
MaxUploads == 4
MaxResults == 3

\* an upload is a video of 60 seconds ("1:00", a short) or of 61 seconds
\* ("1:01"), and videos().list returns it or not
Uploads ==
    UNION {[1..n -> [duration_seconds : {60, 61}, available : BOOLEAN]] :
              n \in 0..MaxUploads}

\* the request that raises HttpError: none (0), the channel request (1), or
\* one of the two requests of a page
MaxFailingRequest == 5

---------------------------------------------------------------------------
(* Actions *)

Init ==
    /\ pc = "init"
    /\ args = <<>>
    /\ ret = <<>>

\* score and advise on an analysis triple
ScoreAnalyses ==
    /\ pc = "init"
    /\ \E t \in TitleAnalyses, d \in DescAnalyses, g \in TagsAnalyses :
        /\ pc' = "scored"
        /\ args' = <<t, d, g>>
        /\ ret' = Scored(t, d, g)

\* analyze_video_basic(video)
AnalyzeVideoBasic ==
    /\ pc = "init"
    /\ \E video \in Videos :
        /\ pc' = "analyze_video_basic"
        /\ args' = video
        /\ ret' = analyze_video_basic(VideoOf(video)).val

\* YouTubeAPI._format_duration(seconds)
FormatClock ==
    /\ pc = "init"
    /\ \E seconds \in 0..MaxSeconds :
        /\ pc' = "_format_duration"
        /\ args' = seconds
        /\ ret' = _format_duration(seconds)

\* parse_duration_to_seconds of the clock text just formatted
ParseClock ==
    /\ pc = "_format_duration"
    /\ pc' = "clock_round_trip"
    /\ args' = [seconds |-> args, duration_str |-> ret]
    /\ ret' = parse_duration_to_seconds(ret)

\* utils.format_duration(seconds)
FormatVerbose ==
    /\ pc = "init"
    /\ \E seconds \in 0..MaxSeconds :
        /\ pc' = "format_duration"
        /\ args' = seconds
        /\ ret' = format_duration(seconds)

\* parse_duration_to_seconds of the verbose text just formatted
ParseFormatted ==
    /\ pc = "format_duration"
    /\ pc' = "verbose_round_trip"
    /\ args' = [seconds |-> args, duration_str |-> ret]
    /\ ret' = parse_duration_to_seconds(ret)

\* parse_duration_to_seconds(duration_str) on a free text
ParseText ==
    /\ pc = "init"
    /\ \E duration_str \in FreeTexts :
        /\ pc' = "parse_duration_to_seconds"
        /\ args' = duration_str
        /\ ret' = parse_duration_to_seconds(duration_str)

\* parse_duration_to_seconds(duration_str) on a verbose duration written from
\* units in some order
ParseVerbose ==
    /\ pc = "init"
    /\ \E units \in UnitOrders, sep \in {<<>>, <<" ">>} :
        \E values \in [1..Len(units) -> 0..MaxUnit] :
            LET duration_str == Render(units, values, sep)
            IN  /\ pc' = "parse_verbose"
                /\ args' = [duration_str |-> duration_str,
                            units |-> units, values |-> values]
                /\ ret' = parse_duration_to_seconds(duration_str)

\* YouTubeAPI._is_short_video(duration)
IsShortVideo ==
    /\ pc = "init"
    /\ \E clock \in ClockInputs :
        /\ pc' = "_is_short_video"
        /\ args' = clock
        /\ ret' = _is_short_video(clock.duration)

\* WebScraper._parse_count(count_str)
ParseCount ==
    /\ pc = "init"
    /\ \E count_str \in CountTexts :
        /\ pc' = "_parse_count"
        /\ args' = count_str
        /\ ret' = _parse_count(count_str)

\* WebScraper._extract_youtube_title(soup)
ExtractYoutubeTitle ==
    /\ pc = "init"
    /\ \E soup \in SoupsOf(youtube_title_selectors) :
        /\ pc' = "_extract_youtube_title"
        /\ args' = soup
        /\ ret' = _extract_youtube_title(soup)

\* WebScraper._extract_youtube_description(soup)
ExtractYoutubeDescription ==
    /\ pc = "init"
    /\ \E soup \in SoupsOf(youtube_description_selectors) :
        /\ pc' = "_extract_youtube_description"
        /\ args' = soup
        /\ ret' = _extract_youtube_description(soup)

\* WebScraper._extract_website_title(soup)
ExtractWebsiteTitle ==
    /\ pc = "init"
    /\ \E soup \in SoupsOf(website_title_selectors) :
        /\ pc' = "_extract_website_title"
        /\ args' = soup
        /\ ret' = _extract_website_title(soup)

\* WebScraper._extract_website_description(soup)
ExtractWebsiteDescription ==
    /\ pc = "init"
    /\ \E soup \in SoupsOf(website_description_selectors) :
        /\ pc' = "_extract_website_description"
        /\ args' = soup
        /\ ret' = _extract_website_description(soup)

\* WebScraper._extract_channel_name(soup)
ExtractChannelName ==
    /\ pc = "init"
    /\ \E soup \in SoupsOf(channel_name_selectors) :
        /\ pc' = "_extract_channel_name"
        /\ args' = soup
        /\ ret' = _extract_channel_name(soup)

\* WebScraper._extract_youtube_views(soup)
ExtractYoutubeViews ==
    /\ pc = "init"
    /\ \E soup \in DocSoups(VIEW_WORDS) :
        /\ pc' = "_extract_youtube_views"
        /\ args' = soup
        /\ ret' = _extract_youtube_views(soup)

\* WebScraper._extract_youtube_likes(soup)
ExtractYoutubeLikes ==
    /\ pc = "init"
    /\ \E soup \in DocSoups(LIKE_WORDS) :
        /\ pc' = "_extract_youtube_likes"
        /\ args' = soup
        /\ ret' = _extract_youtube_likes(soup)

\* WebScraper._extract_youtube_tags(soup)
ExtractYoutubeTags ==
    /\ pc = "init"
    /\ \E soup \in KeywordsSoups :
        /\ pc' = "_extract_youtube_tags"
        /\ args' = soup
        /\ ret' = _extract_youtube_tags(soup)

\* WebScraper._extract_website_keywords(soup)
ExtractWebsiteKeywords ==
    /\ pc = "init"
    /\ \E soup \in KeywordsSoups :
        /\ pc' = "_extract_website_keywords"
        /\ args' = soup
        /\ ret' = _extract_website_keywords(soup)

\* analyze_video_basic(video) on a dictionary with absent and None entries
AnalyzeVideoDict ==
    /\ pc = "init"
    /\ \E video \in VideoDicts :
        /\ pc' = "video_analyzed"
        /\ args' = video
        /\ ret' = analyze_video_basic(video)

\* analyze_url on a video URL whose yt-dlp extraction failed:
\* _scrape_youtube_video(url), then main.py's analyze_url on its result
ScrapeYoutubeVideo ==
    /\ pc = "init"
    /\ \E k \in 1..2, content \in Contents :
        LET url_data == _scrape_youtube_video(UrlOf(k), content)
        IN  /\ pc' = "_scrape_youtube_video"
            /\ args' = [url |-> UrlOf(k), content |-> content]
            /\ ret' = [url_data |-> url_data, shown |-> analyze_url(url_data)]

\* analyze_url on a website URL: _analyze_generic_website(url), then main.py's
\* analyze_url on its result
AnalyzeGenericWebsite ==
    /\ pc = "init"
    /\ \E k \in 1..2, content \in Contents :
        LET url_data == _analyze_generic_website(UrlOf(k), content)
        IN  /\ pc' = "_analyze_generic_website"
            /\ args' = [url |-> UrlOf(k), content |-> content]
            /\ ret' = [url_data |-> url_data, shown |-> analyze_url(url_data)]

\* analyze_youtube_channel(channel_data, max_videos): a channel without
\* videos ends the analysis, any other starts get_channel_videos_detailed
StartChannel ==
    /\ pc = "init"
    /\ \E videos \in ChannelVideos, max_videos \in 1..MaxVideos :
        /\ pc' = IF videos = <<>> THEN "no_videos"
                 ELSE "get_channel_videos_detailed"
        /\ args' = [videos |-> videos, max_videos |-> max_videos]
        /\ ret' = Batch(0, <<>>, <<>>, 0, "")

\* one turn of the loop of get_channel_videos_detailed; _analyze_youtube_video
\* catches every exception, so the loop's own except clause is never entered
DetailVideo ==
    /\ pc = "get_channel_videos_detailed"
    /\ ret.i < Len(Take(args.videos, args.max_videos))
    /\ LET video == args.videos[ret.i + 1]
       IN  \E detailed_info \in _analyze_youtube_video(Get(video, "url", None)) :
               ret' = [ret EXCEPT !.i = @ + 1,
                                  !.detailed_videos =
                                      Detailed(@, video, detailed_info)]
    /\ UNCHANGED <<pc, args>>

\* get_channel_videos_detailed returns: without a detailed video the analysis
\* ends, with one the scoring loop starts
ReturnDetailed ==
    /\ pc = "get_channel_videos_detailed"
    /\ ret.i = Len(Take(args.videos, args.max_videos))
    /\ pc' = IF ret.detailed_videos = <<>> THEN "no_detailed_videos"
             ELSE "analyze_youtube_channel"
    /\ ret' = [ret EXCEPT !.i = 0]
    /\ UNCHANGED args

\* one turn of the scoring loop, detailed analysis being off: an exception of
\* analyze_video_basic leaves the loop and analyze_youtube_channel
ScoreVideo ==
    /\ pc = "analyze_youtube_channel"
    /\ ret.i < Len(ret.detailed_videos)
    /\ LET video_analysis == analyze_video_basic(ret.detailed_videos[ret.i + 1])
       IN  IF video_analysis.ok
           THEN /\ ret' = [ret EXCEPT !.i = @ + 1,
                                      !.videos = Append(@, video_analysis.val),
                                      !.total_views = @ + video_analysis.val.views]
                /\ pc' = pc
           ELSE /\ ret' = [ret EXCEPT !.raised = video_analysis.err]
                /\ pc' = "analysis_raised"
    /\ UNCHANGED args

\* the scoring loop ends and the results are stored
CompleteAnalysis ==
    /\ pc = "analyze_youtube_channel"
    /\ ret.i = Len(ret.detailed_videos)
    /\ pc' = "analysis_complete"
    /\ UNCHANGED <<args, ret>>

\* calculate_keyword_density(text)
CalculateKeywordDensity ==
    /\ pc = "init"
    /\ \E text \in DensityTexts :
        /\ pc' = "calculate_keyword_density"
        /\ args' = text
        /\ ret' = calculate_keyword_density(text)

\* AIAnalyzer.analyze_video(video) with the client configured or not, and an
\* oracle
AnalyzeVideo ==
    /\ pc = "init"
    /\ \E video \in AIVideos, configured \in BOOLEAN, oracle \in Oracles :
        /\ pc' = "analyze_video"
        /\ args' = [video |-> video, configured |-> configured,
                    oracle |-> oracle]
        /\ ret' = analyze_video(video, configured, oracle)

\* clean_text(text) on None or a text
CleanText ==
    /\ pc = "init"
    /\ \E text \in CleanTexts :
        /\ pc' = "clean_text"
        /\ args' = text
        /\ ret' = clean_text(text)

\* format_number(num)
FormatNumber ==
    /\ pc = "init"
    /\ \E num \in Numbers :
        /\ pc' = "format_number"
        /\ args' = num
        /\ ret' = format_number(num)

\* a run of analyze_url in a session: st.session_state is what the run
\* before left, and holds nothing at the start
AnalyzeUrl ==
    /\ pc \in {"init", "analyze_url"}
    /\ \E run \in Runs, ai \in Analyzers :
        LET session_state == IF pc = "init" THEN <<>> ELSE ret.session_state
        IN  /\ pc' = "analyze_url"
            /\ args' = [run |-> run, ai |-> ai, session_state |-> session_state]
            /\ ret' = AnalyzeUrlIn(session_state, run.url_data, run.max_videos,
                                   run.infos, ai)

\* analyze_url on a channel: get_channel_videos_detailed, the scoring loop
\* and calculate_summary_stats
AnalyzeChannel ==
    /\ pc = "init"
    /\ \E channel_data \in ListedChannels, max_videos \in 1..MaxListed,
          ai \in Analyzers :
        \E returned \in [1..Len(channel_data.videos) ->
                            1..Len(DetailedInfos(UrlOf(0)))] :
            LET infos == [k \in 1..Len(channel_data.videos) |->
                             DetailedInfos(UrlOf(k))[returned[k]]]
            IN  /\ pc' = "analyze_youtube_channel_stored"
                /\ args' = [run |-> Run(channel_data, max_videos, infos),
                            ai |-> ai, session_state |-> <<>>]
                /\ ret' = AnalyzeUrlIn(<<>>, channel_data, max_videos, infos, ai)

\* get_channel_videos(channel_id, max_results, include_shorts) up to the
\* loop: [] when the API is not configured, when the channel request raises
\* HttpError and when it finds no channel
GetChannelVideos ==
    /\ pc = "init"
    /\ \E uploads \in Uploads, max_results \in 0..MaxResults,
          include_shorts \in BOOLEAN, fails \in 0..MaxFailingRequest,
          found \in {"not configured", "no channel", "channel"} :
        /\ args' = [uploads |-> uploads, max_results |-> max_results,
                    include_shorts |-> include_shorts, fails |-> fails,
                    found |-> found]
        /\ IF found = "not configured"
           THEN /\ pc' = "returned"
                /\ ret' = Call(<<>>, 0, 0, 0, 0, <<>>, FALSE)
           ELSE IF fails = 1
           THEN /\ pc' = "returned"
                /\ ret' = Call(<<>>, 0, 1, 0, 0, OnHttpError(<<>>), TRUE)
           ELSE IF found = "no channel"
           THEN /\ pc' = "returned"
                /\ ret' = Call(<<>>, 0, 1, 0, 0, <<>>, FALSE)
           ELSE /\ pc' = "get_channel_videos"
                /\ ret' = Call(<<>>, 0, 1, 0, 0, <<>>, FALSE)

\* one turn of the while loop: the page of playlist items, the details of
\* its videos, the filter; an HttpError of either request ends the call, a
\* page without nextPageToken ends the loop
FetchPage ==
    /\ pc = "get_channel_videos"
    /\ Len(ret.videos) < args.max_results
    /\ LET playlist_response ==
               PlaylistItems(args.uploads,
                             Min(50, args.max_results - Len(ret.videos)),
                             ret.next_page_token)
           videos == ret.videos
                         \o PageVideos(args.uploads, playlist_response.items,
                                       args.include_shorts)
           next_page_token == playlist_response.nextPageToken
       IN  IF args.fails \in {ret.requests + 1, ret.requests + 2}
           THEN /\ pc' = "returned"
                /\ ret' = Call(ret.videos, ret.next_page_token, args.fails,
                               ret.pages, ret.before, OnHttpError(ret.videos),
                               TRUE)
           ELSE /\ pc' = IF next_page_token = 0 THEN "returned" ELSE pc
                /\ ret' = Call(videos, next_page_token, ret.requests + 2,
                               ret.pages + 1, Len(ret.videos),
                               IF next_page_token = 0
                               THEN Take(videos, args.max_results) ELSE <<>>,
                               FALSE)
    /\ UNCHANGED args

\* the while loop ends on its condition: return videos[:max_results]
ReturnVideos ==
    /\ pc = "get_channel_videos"
    /\ Len(ret.videos) >= args.max_results
    /\ pc' = "returned"
    /\ ret' = [ret EXCEPT !.result = Take(ret.videos, args.max_results)]
    /\ UNCHANGED args

NextScorer == ScoreAnalyses \/ AnalyzeVideoBasic

SpecScorer == Init /\ [][NextScorer]_vars

NextDuration ==
    \/ FormatClock
    \/ ParseClock
    \/ FormatVerbose
    \/ ParseFormatted
    \/ ParseText
    \/ ParseVerbose
    \/ IsShortVideo

SpecDuration == Init /\ [][NextDuration]_vars

NextCount == ParseCount

SpecCount == Init /\ [][NextCount]_vars

NextExtract ==
    \/ ExtractYoutubeTitle
    \/ ExtractYoutubeDescription
    \/ ExtractWebsiteTitle
    \/ ExtractWebsiteDescription
    \/ ExtractChannelName
    \/ ExtractYoutubeViews
    \/ ExtractYoutubeLikes
    \/ ExtractYoutubeTags
    \/ ExtractWebsiteKeywords

SpecExtract == Init /\ [][NextExtract]_vars

NextRecord == AnalyzeVideoDict

SpecRecord == Init /\ [][NextRecord]_vars

NextPage == ScrapeYoutubeVideo \/ AnalyzeGenericWebsite

SpecPage == Init /\ [][NextPage]_vars

NextBatch ==
    StartChannel \/ DetailVideo \/ ReturnDetailed \/ ScoreVideo
        \/ CompleteAnalysis

SpecBatch == Init /\ [][NextBatch]_vars

NextDensity == CalculateKeywordDensity

SpecDensity == Init /\ [][NextDensity]_vars

NextAI == AnalyzeVideo

SpecAI == Init /\ [][NextAI]_vars

NextClean == CleanText

SpecClean == Init /\ [][NextClean]_vars

NextNumber == FormatNumber

SpecNumber == Init /\ [][NextNumber]_vars

NextSession == AnalyzeUrl

SpecSession == Init /\ [][NextSession]_vars

NextChannel == AnalyzeChannel

SpecChannel == Init /\ [][NextChannel]_vars

NextUploads == GetChannelVideos \/ FetchPage \/ ReturnVideos

SpecUploads == Init /\ [][NextUploads]_vars

Next ==
    NextScorer \/ NextDuration \/ NextCount \/ NextExtract \/ NextRecord
        \/ NextPage \/ NextBatch \/ NextDensity \/ NextAI
        \/ NextClean \/ NextNumber \/ NextSession \/ NextChannel
        \/ NextUploads

Spec == Init /\ [][Next]_vars

---------------------------------------------------------------------------
(* The score table of the specification, row by row *)

TitleTable(t) ==
    <<[met |-> 40 <= t.length /\ t.length <= 60,         points |-> 15],
      [met |-> t.has_numbers,                            points |-> 5],
      [met |-> t.has_question \/ t.has_exclamation,      points |-> 10],
      [met |-> 6 <= t.word_count /\ t.word_count <= 10,  points |-> 10]>>

DescTable(d) ==
    <<[met |-> d.length >= 200,                          points |-> 15],
      [met |-> d.has_links,                              points |-> 5],
      [met |-> d.has_timestamps,                         points |-> 5],
      [met |-> d.has_hashtags,                           points |-> 5],
      [met |-> d.line_count >= 3,                        points |-> 5]>>

TagsTable(g) ==
    <<[met |-> g.count >= 5,                             points |-> 10],
      [met |-> g.count <= 15,                            points |-> 10],
      [met |-> /\ 5 * g.avg_length.den <= g.avg_length.num
               /\ g.avg_length.num <= 20 * g.avg_length.den,
                                                         points |-> 5]>>

ScoreTable(t, d, g) == TitleTable(t) \o DescTable(d) \o TagsTable(g)

\* the rows of a table that hold
MetOf(table) == {i \in DOMAIN table : table[i].met}

Rows == DOMAIN ScoreTable(
            [length |-> 0, has_numbers |-> FALSE, has_question |-> FALSE,
             has_exclamation |-> FALSE, word_count |-> 0],
            [length |-> 0, has_links |-> FALSE, has_timestamps |-> FALSE,
             has_hashtags |-> FALSE, line_count |-> 1],
            [count |-> 0, avg_length |-> AvgLength(0, 0)])

TitleRows == {1, 2, 3, 4}

RowsMet(t, d, g) == MetOf(ScoreTable(t, d, g))

TableSum(t, d, g) ==
    LET table == ScoreTable(t, d, g)
    IN  Sum([i \in DOMAIN table |-> IF table[i].met THEN table[i].points ELSE 0],
            Len(table))

\* the states that hold a scored record
IsScored == pc \in {"scored", "analyze_video_basic"}

RetRowsMet == RowsMet(ret.title_analysis, ret.description_analysis, ret.tags_analysis)

---------------------------------------------------------------------------
(* Claims on the heuristic scorer *)

\* C1: the optimization score of every analysis triple is never negative and
\* never exceeds 100.
C1_ScoreInRange ==
    IsScored => 0 <= ret.optimization_score /\ ret.optimization_score <= 100

\* C1 witness: a triple that meets every row has been scored: the sum of the
\* twelve weights reaches the clamp.
C1_Witness ==
    /\ pc = "scored"
    /\ RetRowsMet = Rows
    /\ ret.optimization_score = 100

\* C2: the score is min(100, sum of the points of exactly the rows that hold),
\* and the 50-character example scores 85.
C2_ScoreIsTableSum ==
    IsScored =>
        /\ ret.optimization_score =
               Min(100, TableSum(ret.title_analysis, ret.description_analysis,
                                 ret.tags_analysis))
        /\ (/\ pc = "analyze_video_basic"
            /\ args = [title |-> Title50, description |-> Description250,
                       tags |-> TagsOf(8, 10)])
               => ret.optimization_score = 85

\* C2 witness: the example video of the claim has been analysed: 50
\* characters, 8 words, "!", 250 characters, a link, 4 lines, 8 tags averaging
\* 10 characters, and nothing else.
C2_Witness ==
    /\ pc = "analyze_video_basic"
    /\ ret.title_analysis.length = 50
    /\ ret.title_analysis.word_count = 8
    /\ ret.title_analysis.has_exclamation
    /\ ret.description_analysis.length = 250
    /\ ret.description_analysis.has_links
    /\ ret.description_analysis.line_count = 4
    /\ ret.tags_analysis.count = 8
    /\ ret.tags_analysis.avg_length = [num |-> 80, den |-> 8]
    /\ RetRowsMet = {1, 3, 4, 5, 6, 9, 10, 11, 12}
    /\ ret.optimization_score = 85

\* the case of C3: an empty description, no tags and a title that meets no
\* title row
C3_Case ==
    /\ pc = "analyze_video_basic"
    /\ args.description = <<>>
    /\ args.tags = <<>>
    /\ RetRowsMet \cap TitleRows = {}

\* C3 as stated: with description "" and tags [] and a title that meets no
\* title condition, the total score is 0.
C3_ScoreIsZero == C3_Case => ret.optimization_score = 0

\* C3 amended: in that case the description has length 0 and 1 line, the tag
\* count is 0, the only row that holds is "tag count <= 15", and the score
\* is 10.
C3_ScoreIsTen ==
    C3_Case =>
        /\ ret.description_analysis.length = 0
        /\ ret.description_analysis.line_count = 1
        /\ ~ret.description_analysis.has_links
        /\ ~ret.description_analysis.has_timestamps
        /\ ~ret.description_analysis.has_hashtags
        /\ ret.tags_analysis.count = 0
        /\ RetRowsMet = {11}
        /\ ret.optimization_score = 10

\* C3 witness: the empty video (title "", description "", no tags) has been
\* analysed.
C3_Witness ==
    /\ C3_Case
    /\ args.title = <<>>

\* met2 is met1 and one row more
OneMore(met1, met2) == met1 \subseteq met2 /\ Cardinality(met2 \ met1) = 1

\* C4: when a single row flips from unmet to met and the other rows are held
\* fixed, the score does not decrease, and stays at most 100.  (A row belongs
\* to one of the three analyses, so the two triples differ in one analysis.)
C4_Monotone ==
    pc = "scored" =>
        LET t == args[1]
            d == args[2]
            g == args[3]
            title_met == MetOf(TitleTable(t))
            desc_met == MetOf(DescTable(d))
            tags_met == MetOf(TagsTable(g))
            NotLess(t2, d2, g2) ==
                /\ calculate_optimization_score(t2, d2, g2) >= ret.optimization_score
                /\ calculate_optimization_score(t2, d2, g2) <= 100
        IN  /\ \A t2 \in TitleAnalyses :
                  OneMore(title_met, MetOf(TitleTable(t2))) => NotLess(t2, d, g)
            /\ \A d2 \in DescAnalyses :
                  OneMore(desc_met, MetOf(DescTable(d2))) => NotLess(t, d2, g)
            /\ \A g2 \in TagsAnalyses :
                  OneMore(tags_met, MetOf(TagsTable(g2))) => NotLess(t, d, g2)

\* C4 witness: a scored triple with a row unmet (the description is short)
\* for which the same triple with that row met is in the domain.
C4_Witness ==
    /\ pc = "scored"
    /\ args[2].length = 199
    /\ \E d2 \in DescAnalyses :
          /\ OneMore(RowsMet(args[1], args[2], args[3]), RowsMet(args[1], d2, args[3]))
          /\ calculate_optimization_score(args[1], d2, args[3])
                 = ret.optimization_score + 15

\* the rows of the score table that have a suggestion in the catalog: there
\* is none for the title word count (4), the description line count (9) and
\* the average tag length (12)
SuggestedRows == {1, 2, 3, 5, 6, 7, 8, 10, 11}

\* the catalog's suggestion for a failed row
RowSuggestion(i, t) ==
    CASE i = 1  -> IF t.length < 40 THEN SUGGEST_TITLE_LONGER ELSE SUGGEST_TITLE_SHORTER
      [] i = 2  -> SUGGEST_TITLE_NUMBERS
      [] i = 3  -> SUGGEST_TITLE_EMOTION
      [] i = 5  -> SUGGEST_DESC_LONGER
      [] i = 6  -> SUGGEST_DESC_LINKS
      [] i = 7  -> SUGGEST_DESC_TIMESTAMPS
      [] i = 8  -> SUGGEST_DESC_HASHTAGS
      [] i = 10 -> SUGGEST_TAGS_MORE
      [] i = 11 -> SUGGEST_TAGS_FEWER

RECURSIVE FailedSuggestions(_, _, _)
\* in table order, the suggestion of every failed row among the first n that
\* has one
FailedSuggestions(n, met, t) ==
    IF n = 0 THEN <<>>
    ELSE FailedSuggestions(n - 1, met, t)
            \o (IF n \in SuggestedRows /\ n \notin met
                THEN <<RowSuggestion(n, t)>> ELSE <<>>)

\* C5 as stated: one suggestion for each row of the score table that fails.
C5_OnePerFailedRow ==
    IsScored => Len(ret.basic_suggestions) = Cardinality(Rows \ RetRowsMet)

\* C5 amended: exactly one suggestion for each failed row among the nine rows
\* that have one (title length, digit, ?/!, description length, link,
\* timestamp, hashtag, tag count >= 5, tag count <= 15), none for a failed
\* title word count, line count or average tag length, in the order of the
\* score table.
C5_OnePerSuggestedRow ==
    IsScored =>
        /\ ret.basic_suggestions =
               FailedSuggestions(Cardinality(Rows), RetRowsMet, ret.title_analysis)
        /\ Len(ret.basic_suggestions) = Cardinality(SuggestedRows \ RetRowsMet)

\* C5 witness: a record that fails every row but one tag-count row: eight
\* suggestions, and three failed rows without one.
C5_Witness ==
    /\ pc = "scored"
    /\ Cardinality(RetRowsMet) = 1
    /\ Len(ret.basic_suggestions) = 8
    /\ {4, 9, 12} \cap RetRowsMet = {}

\* C26: whenever calculate_optimization_score returns 100,
\* generate_basic_suggestions returns the empty list; a record without
\* suggestions need not score 100.
C26_PerfectScoreNoSuggestions ==
    (IsScored /\ ret.optimization_score = 100) => ret.basic_suggestions = <<>>

\* C26 witness: a triple on the lower edge of the title length (40
\* characters) has scored 100 and got no suggestion.
C26_Witness ==
    /\ pc = "scored"
    /\ ret.title_analysis.length = 40
    /\ ret.optimization_score = 100
    /\ ret.basic_suggestions = <<>>

\* the converse does not hold: a record without suggestions that scores less
\* than 100 (a failed title word count, line count or average tag length)
C26_NoSuggestionsBelow100 ==
    /\ pc = "scored"
    /\ ret.basic_suggestions = <<>>
    /\ ret.optimization_score < 100

---------------------------------------------------------------------------
(* Claims on the duration codec *)

\* C6: for every non-negative number of seconds s, parsing the clock text of
\* _format_duration(s) with parse_duration_to_seconds gives s again.
C6_ClockRoundTrip ==
    pc = "clock_round_trip" => ret = Ok(args.seconds)

\* C6 witness: 3661 seconds went through "1:01:01" (the H:MM:SS form, with
\* both zero-padded fields) and came back.
C6_Witness ==
    /\ pc = "clock_round_trip"
    /\ args.seconds = 3661
    /\ args.duration_str = <<"1", ":", "0", "1", ":", "0", "1">>
    /\ ret = Ok(3661)

\* the hour component and the total seconds of the fields of a clock text,
\* <<minutes, seconds>> or <<hours, minutes, seconds>>
ClockHours(fields) == IF Len(fields) = 3 THEN fields[1] ELSE 0

ClockTotal(fields) ==
    IF Len(fields) = 3
    THEN 3600 * fields[1] + 60 * fields[2] + fields[3]
    ELSE 60 * fields[1] + fields[2]

\* C7: _is_short_video is true if and only if the clock text's total seconds
\* is <= 60 and its hour component is zero, for M:SS and H:MM:SS texts.
C7_ShortIff ==
    pc = "_is_short_video" =>
        (ret <=> (ClockTotal(args.fields) <= 60 /\ ClockHours(args.fields) = 0))

\* "<N><unit>" of each shown unit, single spaces between
VerboseText(h, showH, m, showM, sec, showS) ==
    LET hs == IF showH THEN <<Str(h) \o <<"h">>>> ELSE <<>>
        ms == IF showM THEN <<Str(m) \o <<"m">>>> ELSE <<>>
        ss == IF showS THEN <<Str(sec) \o <<"s">>>> ELSE <<>>
        shown == hs \o ms \o ss
    IN  IF Len(shown) = 1 THEN shown[1]
        ELSE IF Len(shown) = 2 THEN shown[1] \o <<" ">> \o shown[2]
        ELSE shown[1] \o <<" ">> \o shown[2] \o <<" ">> \o shown[3]

\* C8 as stated: format_duration writes the units "Xh", "Ym", "Zs" of the
\* duration with every zero-valued unit omitted (0 gives "0s").
C8_ZeroUnitsOmitted ==
    pc = "format_duration" =>
        LET h   == args \div 3600
            m   == (args % 3600) \div 60
            sec == args % 60
        IN  ret = VerboseText(h, h > 0, m, m > 0, sec, sec > 0 \/ args = 0)

\* C8 amended: zero-valued units are omitted (0 gives "0s", 90 gives "1m 30s",
\* 3600 gives "1h"), except that a zero minutes unit is written when the hours
\* and the seconds are both non-zero (3601 gives "1h 0m 1s").
C8_InnerZeroKept ==
    pc = "format_duration" =>
        LET h   == args \div 3600
            m   == (args % 3600) \div 60
            sec == args % 60
        IN  /\ ret = VerboseText(h, h > 0, m, m > 0 \/ (h > 0 /\ sec > 0),
                                 sec, sec > 0 \/ args = 0)
            /\ args = 0 => ret = <<"0", "s">>
            /\ args = 90 => ret = <<"1", "m", " ", "3", "0", "s">>
            /\ args = 3600 => ret = <<"1", "h">>

\* C8 witness: 3601 seconds (non-zero hours and seconds, zero minutes) has
\* been formatted, as "1h 0m 1s".
C8_Witness ==
    /\ pc = "format_duration"
    /\ args = 3601
    /\ ret = <<"1", "h", " ", "0", "m", " ", "1", "s">>

HasColon(text) == \E i \in 1..Len(text) : text[i] = ":"

\* some colon-delimited part of the text is not a number int() reads
SomePartNotNumeric(text) ==
    \E i \in 1..Len(SplitOn(text, ":")) : ~PyInt(SplitOn(text, ":")[i]).ok

\* C9 as stated: on a colon text, parse_duration_to_seconds fails whenever a
\* part is non-numeric or the number of parts is not 2 or 3.
C9_ColonTextFails ==
    (/\ pc = "parse_duration_to_seconds"
     /\ HasColon(args)
     /\ (SomePartNotNumeric(args) \/ Len(SplitOn(args, ":")) \notin {2, 3}))
        => ~ret.ok

\* C9 amended: on a colon text of 2 or 3 parts, parse_duration_to_seconds
\* raises ValueError when some part is not a number int() reads and returns a
\* number otherwise; on a colon text of 4 parts or more it raises nothing,
\* whatever the parts are, and returns the seconds of the "<N>h", "<N>m",
\* "<N>s" units found in the text (0 when there is none).
C9_ColonTextFailsOnTwoOrThree ==
    (pc = "parse_duration_to_seconds" /\ HasColon(args)) =>
        IF Len(SplitOn(args, ":")) \in {2, 3}
        THEN IF SomePartNotNumeric(args)
             THEN ret = Raise("ValueError")
             ELSE ret.ok
        ELSE ret = Ok(VerboseSeconds(args))

\* C9 witness: the two-part text "1:h", whose second part is no number, has
\* been parsed and raised ValueError.
C9_Witness ==
    /\ pc = "parse_duration_to_seconds"
    /\ args = <<"1", ":", "h">>
    /\ ret = Raise("ValueError")

\* the number written with a unit in a verbose duration, 0 when the unit is
\* absent
UnitValue(units, values, unit) ==
    IF \E i \in 1..Len(units) : units[i] = unit
    THEN values[CHOOSE i \in 1..Len(units) : units[i] = unit]
    ELSE 0

\* no "<N>h", "<N>m" or "<N>s" occurs in the text
NoUnit(text) ==
    ~\E i \in 1..(Len(text) - 1) : IsDigit(text[i]) /\ text[i + 1] \in Units

\* C10: on a text without colon, parse_duration_to_seconds returns
\* 3600*h + 60*m + s for the numbers written with the units "h", "m", "s", in
\* any order, an absent unit counting 0; a text with no unit, the empty text
\* included, gives 0 without error.
C10_VerboseSum ==
    /\ pc = "parse_verbose" =>
           ret = Ok(3600 * UnitValue(args.units, args.values, "h")
                      + 60 * UnitValue(args.units, args.values, "m")
                      + UnitValue(args.units, args.values, "s"))
    /\ (pc = "parse_duration_to_seconds" /\ ~HasColon(args) /\ NoUnit(args)) =>
           ret = Ok(0)

\* C10 witness: "7s 10h 3m", the units out of order, has been parsed to
\* 36187 seconds.
C10_Witness ==
    /\ pc = "parse_verbose"
    /\ args.duration_str = <<"7", "s", " ", "1", "0", "h", " ", "3", "m">>
    /\ ret = Ok(36187)

\* C30: for every non-negative number of seconds s, parsing the verbose text
\* of format_duration(s) with parse_duration_to_seconds gives s again, also
\* for 0 and when the minutes or the seconds component is zero.
C30_VerboseRoundTrip ==
    pc = "verbose_round_trip" => ret = Ok(args.seconds)

\* C30 witness: 3601 seconds went through "1h 0m 1s" (a zero minutes
\* component between hours and seconds) and came back.
C30_Witness ==
    /\ pc = "verbose_round_trip"
    /\ args.seconds = 3601
    /\ args.duration_str = <<"1", "h", " ", "0", "m", " ", "1", "s">>
    /\ ret = Ok(3601)

\* 0 went through "0s", and 7200 through "2h", and came back
C30_ZeroComponents ==
    /\ pc = "verbose_round_trip"
    /\ \/ args.seconds = 0 /\ args.duration_str = <<"0", "s">>
       \/ args.seconds = 7200 /\ args.duration_str = <<"2", "h">>
    /\ ret = Ok(args.seconds)

---------------------------------------------------------------------------
(* Claims on the count parser *)

IsParsedCount == pc = "_parse_count"

\* a text with no digit holds no number
NoDigit(text) == \A i \in 1..Len(text) : ~IsDigit(text[i])

\* C11: _parse_count is total: for every text, the texts included that end
\* in K, M or B with no number before the suffix ("K", "bomb"), it returns
\* an integer and raises nothing, and it returns 0 when nothing can be
\* parsed.
C11_ParseCountTotal ==
    IsParsedCount =>
        /\ ret.ok
        /\ ret.val \in Int
        /\ NoDigit(args) => ret.val = 0

\* digits, with at most one point among them
IsDecimal(text) ==
    /\ \E i \in 1..Len(text) : IsDigit(text[i])
    /\ \A i \in 1..Len(text) : IsDigit(text[i]) \/ text[i] = "."
    /\ Cardinality({i \in 1..Len(text) : text[i] = "."}) <= 1

\* the digits after the point
Places(text) ==
    IF \E i \in 1..Len(text) : text[i] = "."
    THEN Len(text) - (CHOOSE i \in 1..Len(text) : text[i] = ".")
    ELSE 0

\* what a suffix letter multiplies by
SuffixFactor(c) ==
    IF c \in {"K", "k"} THEN 1000
    ELSE IF c \in {"M", "m"} THEN 1000000
    ELSE 1000000000

SuffixLetters == {"K", "k", "M", "m", "B", "b"}

\* the decimal number text times factor, a power of ten, cut to an integer
ScaledTruncated(text, factor) ==
    LET digits == DecVal(SelectSeq(text, IsDigit))
        scale  == 10 ^ Places(text)
    IN  IF scale <= factor THEN digits * (factor \div scale)
        ELSE digits \div (scale \div factor)

\* C12: for a trimmed decimal text with an optional suffix K, M or B in
\* either case, _parse_count returns the number times 1,000 / 1,000,000 /
\* 1,000,000,000 (times 1 with no suffix), truncated to an integer; "abc"
\* gives 0.
C12_ScaledTruncated ==
    IsParsedCount =>
        LET text   == Strip(args)
            suffix == Len(text) > 0 /\ text[Len(text)] \in SuffixLetters
            number == IF suffix THEN Slice(text, 1, Len(text) - 1) ELSE text
            factor == IF suffix THEN SuffixFactor(text[Len(text)]) ELSE 1
        IN  /\ IsDecimal(number) => ret = Ok(ScaledTruncated(number, factor))
            /\ args = <<"a", "b", "c">> => ret = Ok(0)

---------------------------------------------------------------------------
(* Claims on the field extractor *)

TextFields ==
    {"_extract_youtube_title", "_extract_youtube_description",
     "_extract_website_title", "_extract_website_description"}

\* the selectors a selector-driven extractor tries, in their listed order
SelectorsOf(field) ==
    CASE field = "_extract_youtube_title"       -> youtube_title_selectors
      [] field = "_extract_youtube_description" -> youtube_description_selectors
      [] field = "_extract_website_title"       -> website_title_selectors
      [] field = "_extract_website_description" -> website_description_selectors
      [] field = "_extract_channel_name"        -> channel_name_selectors

\* the value an extractor reads from an element: the content attribute, and
\* for all but the website description the stripped text when that is empty
ValueOf(field, element) ==
    IF field = "_extract_website_description" THEN GetContent(element)
    ELSE OrElse(GetContent(element), get_text(element))

\* the selectors whose element has a value that is not empty after trimming
NonEmpty(field, soup) ==
    {i \in 1..Len(SelectorsOf(field)) :
        LET element == select_one(soup, SelectorsOf(field)[i])
        IN  element.found /\ Strip(ValueOf(field, element)) # <<>>}

\* C13: each text field extractor (video title, video description, website
\* title, website description) tries its selectors in the listed order and
\* returns the value of the first selector whose value is not empty after
\* trimming; a selector that matches an element with an empty value does not
\* stop the search.
C13_FirstNonEmptyValue ==
    (pc \in TextFields /\ NonEmpty(pc, args) # {}) =>
        LET first == CHOOSE i \in NonEmpty(pc, args) :
                         \A j \in NonEmpty(pc, args) : i <= j
        IN  ret = Ok(ValueOf(pc, select_one(args, SelectorsOf(pc)[first])))

SelectorFields == TextFields \cup {"_extract_channel_name"}
CountFields == {"_extract_youtube_views", "_extract_youtube_likes"}
ListFields == {"_extract_youtube_tags", "_extract_website_keywords"}

\* the searches of a count extractor find nothing in the document
NoPatternMatches ==
    \A i \in 1..3 :
        /\ pc = "_extract_youtube_views" => ~view_patterns(args.str)[i].found
        /\ pc = "_extract_youtube_likes" => ~like_patterns(args.str)[i].found

Named(soup) ==
    {i \in Matched(soup, channel_name_selectors) :
        LET text == ValueOf("_extract_channel_name",
                            select_one(soup, channel_name_selectors[i]))
        IN  text # <<>> /\ ~Contains(text, YOUTUBE)}

CountOf(group) == DecVal(SelectSeq(group, IsDigit))

\* the count of the first match of a list of matches, 0 when none matched
FirstMatchCount(m1, m2, m3) ==
    IF m1.found THEN CountOf(m1.group)
    ELSE IF m2.found THEN CountOf(m2.group)
    ELSE IF m3.found THEN CountOf(m3.group)
    ELSE 0

Rank(kept, i) == Cardinality({j \in kept : j <= i})

\* C16: tag and keyword extraction splits the content of the keywords
\* element on commas and returns the trimmed entries in their original
\* order: no entry returned is empty or begins or ends with white space,
\* duplicates are kept, and a document without a keywords element gives the
\* empty sequence.
C16_TrimmedEntriesInOrder ==
    pc \in ListFields =>
        LET keywords_meta == select_one(args, KEYWORDS)
            parts == SplitOn(GetContent(keywords_meta), ",")
            kept  == {i \in 1..Len(parts) : Strip(parts[i]) # <<>>}
        IN  /\ ret.ok
            /\ ~keywords_meta.found => ret.val = <<>>
            /\ \A k \in 1..Len(ret.val) :
                  /\ ret.val[k] # <<>>
                  /\ ~IsSpace(ret.val[k][1])
                  /\ ~IsSpace(ret.val[k][Len(ret.val[k])])
            /\ keywords_meta.found =>
                  /\ Len(ret.val) = Cardinality(kept)
                  /\ \A i \in kept : ret.val[Rank(kept, i)] = Strip(parts[i])

\* the same keyword twice, with white space to trim: both are returned
C16_Witness ==
    /\ pc = "_extract_youtube_tags"
    /\ select_one(args, KEYWORDS).found
    /\ GetContent(select_one(args, KEYWORDS)) = <<"a", ",", " ", "a", " ">>
    /\ ret = Ok(<< <<"a">>, <<"a">> >>)

---------------------------------------------------------------------------
(* Claims on analyze_video_basic *)

\* the states that hold the outcome of analyze_video_basic on a dictionary
IsAnalyzed == pc = "video_analyzed"

\* C17: for every record the engagement rate is
\* (likes + comments) / max(views, 1) * 100: the divisor is at least 1, and no
\* record, with zero or missing views or any other, makes the call end in a
\* division by zero.
C17_EngagementRate ==
    IsAnalyzed =>
        /\ ret # Raise("ZeroDivisionError")
        /\ ret.ok =>
              /\ ret.val.engagement_rate.den >= 1
              /\ ret.val.engagement_rate.den =
                     (IF ret.val.views >= 1 THEN ret.val.views ELSE 1)
              /\ ret.val.engagement_rate.num =
                     (ret.val.likes + ret.val.comments) * 100

\* C17 witness: a dictionary with neither view_count nor viewCount, 3 likes
\* and 1 comment has been analysed: 0 views, and a rate of 400 / 1.
C17_Witness ==
    /\ IsAnalyzed
    /\ DOMAIN args \cap {"view_count", "viewCount"} = {}
    /\ ret.ok
    /\ ret.val.views = 0
    /\ ret.val.likes = 3
    /\ ret.val.comments = 1
    /\ ret.val.engagement_rate = [num |-> 400, den |-> 1]

\* the entry of a key is unavailable: absent, or None
Unavailable(video, key) ==
    key \notin DOMAIN video \/ video[key].type = "NoneType"

\* the case of C18: a dictionary in which at least one entry is unavailable
\* and no count is negative
C18_Case ==
    /\ IsAnalyzed
    /\ \E key \in VideoKeys : Unavailable(args, key)
    /\ \A key \in DOMAIN args : args[key].type = "int" => args[key].val >= 0

\* C18: analyze_video_basic is total over records with missing or null
\* fields: it returns a scored record without raising, its views, likes and
\* comments are non-negative, and a count that neither of its keys makes
\* available is 0.
C18_TotalOnMissingOrNull ==
    C18_Case =>
        /\ ret.ok
        /\ ret.val.optimization_score \in 0..100
        /\ ret.val.views >= 0 /\ ret.val.likes >= 0 /\ ret.val.comments >= 0
        /\ (Unavailable(args, "view_count") /\ Unavailable(args, "viewCount"))
               => ret.val.views = 0
        /\ (Unavailable(args, "like_count") /\ Unavailable(args, "likeCount"))
               => ret.val.likes = 0
        /\ (Unavailable(args, "comment_count") /\ Unavailable(args, "commentCount"))
               => ret.val.comments = 0

---------------------------------------------------------------------------
(* Claims on the page analysis *)

\* the states that hold the outcome of a page analysis
IsPageAnalyzed == pc \in {"_scrape_youtube_video", "_analyze_generic_website"}

\* the document fetched is null or empty
NoDocument == args.content = None \/ args.content = EmptyContent

---------------------------------------------------------------------------
(* Claims on the channel batch *)

\* the states of a channel analysis
IsBatch ==
    pc \in {"no_videos", "get_channel_videos_detailed", "no_detailed_videos",
            "analyze_youtube_channel", "analysis_raised", "analysis_complete"}

\* the place of a url among the channel's videos
PlaceOf(url) == CHOOSE k \in 1..MaxVideos : UrlOf(k) = url

\* the records are records of distinct videos among the first max_videos of
\* the channel, in the channel's order
InInputOrder(records, key) ==
    /\ Len(records) <= args.max_videos
    /\ \A j \in 1..Len(records) :
          /\ \E k \in 1..Len(Take(args.videos, args.max_videos)) :
                /\ "url" \in DOMAIN args.videos[k]
                /\ args.videos[k].url = records[j][key]
          /\ \A h \in 1..(j - 1) :
                PlaceOf(records[h][key]) < PlaceOf(records[j][key])

\* the batch keeps the first max_videos videos and their order, in the
\* detailed videos and in the scored ones
C19_TruncatedInOrder ==
    IsBatch =>
        /\ InInputOrder(ret.detailed_videos, "webpage_url")
        /\ InInputOrder(ret.videos, "url")

\* a failure on one item leaves no later item of the batch unprocessed: an
\* analysis that an exception has ended had reached the last item, and a
\* completed one holds a result for every detailed video
C19_LaterItemsProcessed ==
    /\ pc = "analysis_raised" => ret.i + 1 = Len(ret.detailed_videos)
    /\ pc = "analysis_complete" => Len(ret.videos) = Len(ret.detailed_videos)

\* C19: the batch returns at most max_videos results, taken from the first
\* max_videos input records in input order, and a failure while one item is
\* processed never prevents the later items from being processed.
C19_BatchKeepsGoing == C19_TruncatedInOrder /\ C19_LaterItemsProcessed

---------------------------------------------------------------------------
(* Claims on calculate_keyword_density *)

\* Exact arithmetic on the returned floats: a float x > 0 of exponent >= -8
\* is the natural number x * 2^Scale, written in binary digits.
Scale == Precision + 7

Zeros(k) == [i \in 1..k |-> 0]

\* bits without its leading zeros
Trim(bits) ==
    IF \A i \in 1..Len(bits) : bits[i] = 0 THEN <<>>
    ELSE Slice(bits, CHOOSE i \in 1..Len(bits) :
                         bits[i] = 1 /\ \A j \in 1..(i - 1) : bits[j] = 0,
               Len(bits))

RECURSIVE AddPadded(_, _, _)
\* a + b + carry for two sequences of the same length, 13 digits at a time
AddPadded(a, b, carry) ==
    IF a = <<>> THEN BitsOf(carry)
    ELSE LET n == Len(a)
             k == Min(n, 13)
             t == IntOfBits(Slice(a, n - k + 1, n))
                      + IntOfBits(Slice(b, n - k + 1, n)) + carry
         IN  AddPadded(Slice(a, 1, n - k), Slice(b, 1, n - k), t \div (2 ^ k))
                 \o PadBits(t % (2 ^ k), k)

\* a + b
AddBits(a, b) ==
    LET n == Max(Len(a), Len(b))
    IN  Trim(AddPadded(Zeros(n - Len(a)) \o a, Zeros(n - Len(b)) \o b, 0))

\* a <= b, for two sequences without leading zeros
BitsLE(a, b) ==
    \/ Len(a) < Len(b)
    \/ /\ Len(a) = Len(b)
       /\ \A i \in 1..Len(a) :
             a[i] > b[i] => \E j \in 1..(i - 1) : a[j] < b[j]

\* x * 2^Scale
Fixed(x) ==
    IF x.mant = <<>> THEN <<>>
    ELSE Trim(x.mant \o Zeros(x.exp - (Precision - 1) + Scale))

\* n * 2^e
Scaled(n, e) == IF n = 0 THEN <<>> ELSE BitsOf(n) \o Zeros(e)

RECURSIVE FixedSum(_, _)
\* the exact sum of the values of a dictionary of floats, times 2^Scale
FixedSum(density, keys) ==
    IF keys = {} THEN <<>>
    ELSE LET key == CHOOSE k \in keys : TRUE
         IN  AddBits(Fixed(density[key]), FixedSum(density, keys \ {key}))

IsDensity == pc = "calculate_keyword_density"

\* the words of the text, case-folded
ArgWords == FindWords(Lower(args))

\* the keys are the case-folded words of more than 3 characters, no key is
\* shorter, every value is in (0, 100], and a text without words gives the
\* empty dictionary
C21_KeysAndRange ==
    /\ DOMAIN ret = {ArgWords[i] : i \in {j \in 1..Len(ArgWords) :
                                            Len(ArgWords[j]) > 3}}
    /\ \A word \in DOMAIN ret :
          /\ Len(word) > 3
          /\ Fixed(ret[word]) # <<>>
          /\ BitsLE(Fixed(ret[word]), Scaled(100, Scale))
    /\ ArgWords = <<>> => DOMAIN ret = {}

\* C21 as stated: the keys are the case-folded words longer than 3, every
\* value is in (0, 100], and the values of all keys together sum to at most
\* 100.
C21_SumAtMost100 ==
    IsDensity =>
        /\ C21_KeysAndRange
        /\ BitsLE(FixedSum(ret, DOMAIN ret), Scaled(100, Scale))

\* the value of a word is within 2^-45 of 100 * occurrences / total:
\* |value * total - 100 * occurrences| <= total * 2^-45
NearRatio(value, occurrences, total) ==
    LET scaled == Trim(MulBits(Fixed(value), total, 0))
        exact  == Scaled(100 * occurrences, Scale)
        slack  == Scaled(total, Scale - 45)
    IN  /\ BitsLE(scaled, AddBits(exact, slack))
        /\ BitsLE(exact, AddBits(scaled, slack))

\* C21 amended: the keys are the case-folded words longer than 3, every value
\* is in (0, 100] and within 2^-45 of 100 * occurrences / total word count,
\* the occurrences of the keys sum to at most the total word count, and the
\* values sum to at most 100 + 2^-42: rounding can carry the sum of the
\* floats above 100.
C21_SumNear100 ==
    IsDensity =>
        /\ C21_KeysAndRange
        /\ \A word \in DOMAIN ret :
              NearRatio(ret[word],
                        Cardinality({i \in 1..Len(ArgWords) : ArgWords[i] = word}),
                        Len(ArgWords))
        /\ BitsLE(FixedSum(ret, DOMAIN ret),
                  AddBits(Scaled(100, Scale), Scaled(1, Scale - 42)))

\* C21 witness: a text of 6 words, 5 of them one keyword in two cases and 1
\* another, has given two values whose sum is above 100.
C21_Witness ==
    /\ IsDensity
    /\ args = TwoKeywords(5, 1)
    /\ DOMAIN ret = {<<"a", "a", "a", "a">>, <<"b", "b", "_", "1">>}
    /\ ~BitsLE(FixedSum(ret, DOMAIN ret), Scaled(100, Scale))

---------------------------------------------------------------------------
(* Claims on AIAnalyzer.analyze_video *)

IsSuggested == pc = "analyze_video"

\* the oracle's call for key produced a non-empty result
Produced(key) ==
    LET response == _call_claude(args.oracle[key])
    IN  CASE key = "suggested_tags" -> Truthy(_suggest_tags(response))
          [] key = "content_ideas"  -> Truthy(_generate_content_ideas(response))
          [] key = "seo_analysis"   ->
                 /\ _analyze_seo(Get(args.video, "title", StrV(<<>>)), response).ok
                 /\ Truthy(_analyze_seo(Get(args.video, "title", StrV(<<>>)),
                                        response).val)
          [] OTHER                  -> Truthy(response)

\* the call returned the full mock suggestion set
IsMockSet == ret.ok /\ DOMAIN ret.val = SuggestionKeys
                 /\ ret = _get_mock_suggestions(args.video)

\* C22: analyze_video never raises; it returns a mapping whose keys are among
\* the five suggestion keys, a key being there only if its oracle call
\* produced a non-empty result, and after an exception inside the configured
\* path it returns the full mock suggestion set.
C22_NeverRaises ==
    IsSuggested =>
        /\ ret.ok
        /\ DOMAIN ret.val \subseteq SuggestionKeys
        /\ args.configured =>
              IF Suggestions(args.video, args.oracle).ok
              THEN \A key \in DOMAIN ret.val : Produced(key)
              ELSE IsMockSet

\* on a video whose title, description and tags are of their types, the claim
\* holds
WellTyped(video) ==
    /\ Get(video, "title", StrV(<<>>)).type = "str"
    /\ Get(video, "description", StrV(<<>>)).type = "str"
    /\ Get(video, "tags", ListV(<<>>)).type = "list"

C22_WellTyped ==
    (IsSuggested /\ WellTyped(args.video)) =>
        /\ ret.ok
        /\ DOMAIN ret.val \subseteq SuggestionKeys
        /\ (args.configured /\ Suggestions(args.video, args.oracle).ok) =>
              \A key \in SuggestionKeys : key \in DOMAIN ret.val <=> Produced(key)
        /\ (args.configured /\ ~Suggestions(args.video, args.oracle).ok) =>
              IsMockSet

\* the configured path raised and the mock set was returned
C22_MockAfterException ==
    /\ IsSuggested /\ args.configured
    /\ ~Suggestions(args.video, args.oracle).ok
    /\ IsMockSet

\* the oracle raised on every call and the call returned the empty mapping
C22_OracleThrows ==
    /\ IsSuggested /\ args.configured
    /\ \A key \in SuggestionKeys : args.oracle[key].throws
    /\ ret.ok /\ DOMAIN ret.val = {}

---------------------------------------------------------------------------
(* Claims on clean_text *)

IsCleaned == pc = "clean_text"

Normalized(s) ==
    /\ s # <<>> => ~IsSpace(s[1]) /\ ~IsSpace(s[Len(s)])
    /\ \A i \in 1..(Len(s) - 1) : ~(IsSpace(s[i]) /\ IsSpace(s[i + 1]))

\* C23: the result of clean_text has no leading or trailing white space and
\* never two consecutive white space characters, also on inputs with control
\* characters between spaces; "  Hello   World  \n\n  " gives "Hello World";
\* empty or null input gives "".
C23_Normalized ==
    IsCleaned =>
        /\ Normalized(ret)
        /\ args = StrV(HelloWorld) => ret = <<"Hello", " ", "World">>
        /\ ~Truthy(args) => ret = <<>>

\* on a text without control characters the result is normalized
C23_NormalizedWithoutControl ==
    (IsCleaned /\ Truthy(args) /\ \A i \in 1..Len(args.val) : ~IsControl(args.val[i]))
        => Normalized(ret)

---------------------------------------------------------------------------
(* Claims on format_number *)

IsFormattedNumber == pc = "format_number"

\* the number printed before the suffix, in tenths
PrintedTenths ==
    LET point == CHOOSE i \in 1..Len(ret) : ret[i] = "."
    IN  DecVal(Slice(ret, 1, point - 1)) * 10 + DecVal(<<ret[point + 1]>>)

Suffix == ret[Len(ret)]

\* the suffix follows the magnitude, and the number printed is the number of
\* units rounded to one decimal
C24_SuffixByMagnitude ==
    IsFormattedNumber =>
        /\ args < 1000 => ret = Str(args)
        /\ args >= 1000 =>
              /\ Len(ret) >= 4 /\ ret[Len(ret) - 2] = "."
              /\ Suffix = (IF args < 1000000 THEN "K"
                           ELSE IF args < 1000000000 THEN "M" ELSE "B")
        /\ args = 1500 => ret = <<"1", ".", "5", "K">>
        /\ args = 1500000 => ret = <<"1", ".", "5", "M">>

\* C24: format_number chooses the suffix by magnitude (plain below 1,000, K
\* below 1,000,000, M below 1,000,000,000, B above; 1500 gives "1.5K",
\* 1500000 gives "1.5M"), and the number printed before a K or an M is
\* always below 1000.
C24_BelowThousand ==
    /\ C24_SuffixByMagnitude
    /\ (IsFormattedNumber /\ args >= 1000 /\ Suffix \in {"K", "M"})
           => PrintedTenths < 10000

---------------------------------------------------------------------------
(* Claims on the stored results *)

IsRun == pc = "analyze_url"

\* the run cannot complete: the scraper returned an error result, the content
\* type is not supported, the channel has no videos, or no detailed video was
\* obtained
IncompleteRun ==
    LET url_data     == args.run.url_data
        content_type == Get(url_data, "type", StrV(<<"unknown">>))
    IN  \/ "error" \in DOMAIN url_data
        \/ content_type \notin {VIDEO, CHANNEL, WEBSITE}
        \/ /\ content_type = CHANNEL
           /\ \/ url_data.videos = <<>>
              \/ DetailedVideos(Take(url_data.videos, args.run.max_videos),
                                args.run.infos) = <<>>

\* what the same run stores in a session that holds nothing
FreshRun ==
    AnalyzeUrlIn(<<>>, args.run.url_data, args.run.max_videos, args.run.infos,
                 args.ai)

\* C25: after a run of analyze_url that does not complete (error result,
\* unsupported content type, channel without videos, no detailed videos)
\* st.session_state.analysis_results is what it was before the run; the
\* stored results change only when an analysis runs to completion, and they
\* are then replaced as a whole by the results of that run.
C25_StoredOnCompletion ==
    IsRun =>
        /\ IncompleteRun => ~ret.completed
        /\ ~ret.completed => ret.session_state = args.session_state
        /\ ret.completed =>
              /\ DOMAIN ret.session_state = {"analysis_results"}
              /\ ret.session_state = FreshRun.session_state

\* C25 witness: results were stored, and a run on a channel without detailed
\* videos has left them as they were.
C25_Witness ==
    /\ IsRun /\ IncompleteRun
    /\ args.run.url_data = ChannelData(<<ChannelVideo(1, FALSE)>>)
    /\ "analysis_results" \in DOMAIN args.session_state
    /\ ret.session_state = args.session_state

\* a completed run has replaced the results of another content type
C25_Replaced ==
    /\ IsRun /\ ret.completed
    /\ "analysis_results" \in DOMAIN args.session_state
    /\ args.session_state.analysis_results.content_type = "channel"
    /\ ret.session_state.analysis_results.content_type = "website"

---------------------------------------------------------------------------
(* Claims on the summary of a channel analysis *)

IsChannelRun == pc = "analyze_youtube_channel_stored"

StoredResults == ret.session_state.analysis_results

\* the first video, in input order, whose engagement rate no other video
\* exceeds
FirstMaximal(videos) ==
    LET maximal == {i \in 1..Len(videos) :
                       \A j \in 1..Len(videos) :
                           FracLE(videos[j].engagement_rate,
                                  videos[i].engagement_rate)}
    IN  videos[CHOOSE i \in maximal : \A j \in maximal : i <= j]

\* C27: after a completed channel analysis, total_videos is the number of
\* analyzed videos, total_views the sum of their views, avg_engagement the
\* mean of their engagement rates, optimization_opportunities the number of
\* their basic suggestions, and top_performing the first video in input order
\* whose engagement rate is maximal; on an empty list of videos
\* calculate_summary_stats leaves the summary as it is.
C27_SummaryConsistent ==
    /\ (IsChannelRun /\ ret.completed) =>
          LET videos  == StoredResults.videos
              summary == StoredResults.summary
              n       == Len(videos)
              rates   == FracSum([i \in 1..n |-> videos[i].engagement_rate])
          IN  /\ n > 0
              /\ summary.total_videos = n
              /\ summary.total_views = Sum([i \in 1..n |-> videos[i].views], n)
              \* avg_engagement * n = the sum of the rates
              /\ summary.avg_engagement.num * rates.den * n
                     = rates.num * summary.avg_engagement.den
              /\ summary.optimization_opportunities
                     = Sum([i \in 1..n |-> Len(videos[i].basic_suggestions)], n)
              /\ summary.top_performing = FirstMaximal(videos)
    /\ IsChannelRun =>
          LET empty == [videos |-> <<>>, summary |-> [total_videos |-> 0]]
          IN  calculate_summary_stats(empty) = empty

\* C27 witness: a completed analysis of two videos with the same, largest
\* engagement rate (1/2 and 2/4): the first one is top_performing.
C27_Witness ==
    /\ IsChannelRun /\ ret.completed
    /\ Len(StoredResults.videos) = 2
    /\ StoredResults.videos[1].likes # StoredResults.videos[2].likes
    /\ FracLE(StoredResults.videos[1].engagement_rate,
              StoredResults.videos[2].engagement_rate)
    /\ FracLE(StoredResults.videos[2].engagement_rate,
              StoredResults.videos[1].engagement_rate)
    /\ StoredResults.summary.top_performing = StoredResults.videos[1]

---------------------------------------------------------------------------
(* Claims on the attached suggestions *)

\* a dictionary without its 'ai_suggestions' entry
WithoutSuggestions(record) ==
    [key \in DOMAIN record \ {"ai_suggestions"} |-> record[key]]

\* the results of the same run with detailed analysis off
PlainResults ==
    AnalyzeUrlIn(<<>>, args.run.url_data, args.run.max_videos, args.run.infos,
                 [args.ai EXCEPT !.detailed_analysis = FALSE])

Attached == args.ai.detailed_analysis /\ args.ai.configured

C29_NotEvenMock ==
    /\ IsRun /\ ret.completed
    /\ args.ai.detailed_analysis /\ ~args.ai.configured
    /\ ret.session_state.analysis_results.content_type = "video"
    /\ "ai_suggestions" \notin DOMAIN ret.session_state.analysis_results.videos[1]

---------------------------------------------------------------------------
(* Claims on get_channel_videos *)

HasReturned == pc = "returned"

\* the ids of the videos are those of uploads, in the order of the playlist
InPlaylistOrder(videos) ==
    /\ \A i \in 1..Len(videos) : videos[i].id \in 1..Len(args.uploads)
    /\ \A i \in 1..(Len(videos) - 1) : videos[i].id < videos[i + 1].id

\* C28: get_channel_videos returns at most max_results videos, in the order
\* of the uploads playlist, none of them a short by _is_short_video when
\* include_shorts is false; the loop fetches a page only while fewer than
\* max_results videos are collected and the page before carried a token; an
\* API error gives the empty list, whatever was collected.
C28_ChannelVideos ==
    /\ HasReturned =>
          /\ Len(ret.result) <= args.max_results
          /\ InPlaylistOrder(ret.result)
          /\ ~args.include_shorts =>
                \A i \in 1..Len(ret.result) :
                    ~_is_short_video(ret.result[i].duration)
          /\ ret.failed => ret.result = <<>>
          /\ (~ret.failed /\ args.found = "channel") =>
                /\ ret.result = Take(ret.videos, args.max_results)
                /\ Len(ret.videos) >= args.max_results \/ ret.next_page_token = 0
    /\ pc \in {"get_channel_videos", "returned"} =>
          /\ ret.pages > 0 => ret.before < args.max_results
          /\ (pc = "get_channel_videos" /\ ret.pages > 0) =>
                ret.next_page_token # 0

\* C28 witness: shorts left out, three pages fetched to collect two videos
\* of a playlist of four.
C28_Witness ==
    /\ HasReturned /\ ~ret.failed
    /\ ~args.include_shorts /\ args.max_results = 2
    /\ Len(args.uploads) = 4
    /\ ret.pages = 3
    /\ Len(ret.result) = 2

\* an HttpError on the second page, after a video was collected: the call
\* has returned the empty list
C28_ErrorAfterVideos ==
    /\ HasReturned /\ ret.failed
    /\ ret.videos # <<>>
    /\ ret.result = <<>>

===========================================================================
